---- MODULE Spec2Model ----
(***************************************************************************)
(* NailScan post-processing (scripts/add_ipr_go.py): identifier helpers,   *)
(* filtering helpers and the per-database pipelines of main().             *)
(*                                                                         *)
(* Strings that the code takes apart (ACC, NAME, DESC) are sequences of    *)
(* one-character strings.  Numeric table fields are kept as read from the  *)
(* file: [k |-> "num", v |-> n], [k |-> "empty"] or [k |-> "bad"] (text    *)
(* that int()/float() rejects).  Scores are integers; e-values are counted *)
(* in units of 1e-5; overlap thresholds are percentages.                   *)
(***************************************************************************)
EXTENDS Integers, Sequences, FiniteSets, TLC

VARIABLES arg, res, pc, db, iprlookup, goterms, files, ref, infile,
          fieldnames, rows, prev, out, stderr, status

vars == <<arg, res, pc, db, iprlookup, goterms, files, ref, infile,
          fieldnames, rows, prev, out, stderr, status>>

mainvars == <<db, iprlookup, goterms, files, ref, infile,
              fieldnames, rows, prev, out, stderr, status>>

(***************************************************************************)
(* Bounds of the model                                                     *)
(***************************************************************************)
MaxLen == 5
MaxRows == 3
MaxMainRows == 2
MaxAnnRows == 2
MaxHierIds == 4
MaxBlocks == 3
MaxNoppRows == 3

(***************************************************************************)
(* Strings                                                                 *)
(***************************************************************************)
Range(s) == {s[i] : i \in 1..Len(s)}

StrUpTo(alphabet, n) == UNION {[1..k -> alphabet] : k \in 0..n}

Digits == {"0", "1", "2", "3", "4", "5", "6", "7", "8", "9"}

\* str.isdigit(): non-empty and all characters digits
isdigit(s) == Len(s) > 0 /\ \A i \in 1..Len(s) : s[i] \in Digits

\* str.rfind(c): 0-based index of the last c, -1 when there is none
rfind(s, c) ==
  IF \E i \in 1..Len(s) : s[i] = c
  THEN (CHOOSE i \in 1..Len(s) : s[i] = c /\ \A j \in (i + 1)..Len(s) : s[j] # c) - 1
  ELSE -1

\* str.find(c): 0-based index of the first c, -1 when there is none
find(s, c) ==
  IF \E i \in 1..Len(s) : s[i] = c
  THEN (CHOOSE i \in 1..Len(s) : s[i] = c /\ \A j \in 1..(i - 1) : s[j] # c) - 1
  ELSE -1

\* s.split(".")[0]
split_dot_0(s) == IF find(s, ".") = -1 THEN s ELSE SubSeq(s, 1, find(s, "."))

startswith(s, p) == Len(s) >= Len(p) /\ SubSeq(s, 1, Len(p)) = p

(***************************************************************************)
(* ID helpers                                                              *)
(***************************************************************************)
\* a plausible slip: the suffix is not tested for digits
strip_version_any_suffix(acc) ==
  IF Len(acc) = 0 THEN acc
  ELSE LET dot == rfind(acc, ".") IN
       IF dot = -1 THEN acc
       ELSE IF Len(acc) > dot + 1 THEN SubSeq(acc, 1, dot) ELSE acc

\* PF00329.26 -> PF00329
strip_version(acc) ==
  IF Len(acc) = 0 THEN acc
  ELSE LET dot == rfind(acc, ".") IN
       IF dot = -1 THEN acc
       ELSE LET suffix == SubSeq(acc, dot + 2, Len(acc)) IN
            IF isdigit(suffix) THEN SubSeq(acc, 1, dot) ELSE acc

\* Python's "a or b" on strings
OrStr(a, b) == IF Len(a) > 0 THEN a ELSE b

\* str.strip() (blanks at both ends removed)
Strip(s) ==
  IF \A i \in 1..Len(s) : s[i] = " " THEN <<>>
  ELSE LET first == CHOOSE i \in 1..Len(s) : s[i] # " " /\ \A j \in 1..(i - 1) : s[j] = " "
           last == CHOOSE i \in 1..Len(s) : s[i] # " " /\ \A j \in (i + 1)..Len(s) : s[j] = " "
       IN SubSeq(s, first, last)

\* PTHR16038.orig.30.pir -> PTHR16038
pthr_base_id(raw) ==
  IF Len(raw) = 0 THEN raw
  ELSE LET base == split_dot_0(raw)
       IN IF startswith(base, <<"P", "T", "H", "R">>) THEN base ELSE raw

\* 143243.1 -> SSF143243 (already SSF* -> unchanged)
ssf_id(raw_acc) ==
  IF Len(raw_acc) = 0 THEN raw_acc
  ELSE IF startswith(raw_acc, <<"S", "S", "F">>) THEN raw_acc
  ELSE LET base == split_dot_0(raw_acc)
       IN IF isdigit(base) THEN <<"S", "S", "F">> \o base ELSE raw_acc

\* 2vqeL00-i2 -> 2vqeL00
cath_base_name(name) ==
  IF Len(name) >= 3 /\ name[Len(name) - 1] = "i" /\ name[Len(name) - 2] = "-"
  THEN SubSeq(name, 1, Len(name) - 3)
  ELSE name

(***************************************************************************)
(* Table rows and their fields                                             *)
(***************************************************************************)
Num(n) == [k |-> "num", v |-> n]
Empty == [k |-> "empty", v |-> 0]
Bad == [k |-> "bad", v |-> 0]
\* the text "nan": float() accepts it, and the value compares false with all
NaN == [k |-> "nan", v |-> 0]
is_nan(f) == f.k = "nan"

Max(a, b) == IF a >= b THEN a ELSE b
Min(a, b) == IF a <= b THEN a ELSE b

\* int(x or 0), float(x or 0): raises ValueError on text that is no number
Parses(f) == f.k # "bad"
OrZero(f) == IF f.k = "num" THEN f.v ELSE 0

\* try: float(row.get("score") or 0) except: 0.0
score_or_zero(row) == IF Parses(row.score) THEN OrZero(row.score) ELSE 0

\* float(r.get("score") or 0) as a sort key or summand, outside any try
score_key(row) == OrZero(row.score)
score_key_raises(rws) == \E i \in 1..Len(rws) : ~Parses(rws[i].score)

\* dict.get(key, default)
Get(m, key, default) == IF key \in DOMAIN m THEN m[key] ELSE default

NoStr == <<>>
MkRow(target, name, acc, desc, s, e, score, evalue) ==
  [idx |-> 0, target |-> target, NAME |-> name, ACC |-> acc, DESC |-> desc,
   target_start |-> s, target_end |-> e, score |-> score, evalue |-> evalue]

\* csv.DictReader: one dict per line, in file order (idx is the line number)
ReadRows(lines) == [i \in 1..Len(lines) |-> [lines[i] EXCEPT !.idx = i]]

Tables(cat, n) == {ReadRows(s) : s \in UNION {[1..k -> cat] : k \in 0..n}}

\* str comparison of the target names used here
Targets == <<"P1", "P2">>
TargetRank(t) == CHOOSE i \in 1..Len(Targets) : Targets[i] = t

\* list.sort / sorted: stable, ascending in key (key[i] is the key of s[i])
StableSort(s, key) ==
  LET rank(i) == 1 + Cardinality({j \in 1..Len(s) :
                      key[j] < key[i] \/ (key[j] = key[i] /\ j < i)})
  IN [k \in 1..Len(s) |-> s[CHOOSE i \in 1..Len(s) : rank(i) = k]]

\* float < float
float_lt(f, g) == ~is_nan(f) /\ ~is_nan(g) /\ OrZero(f) < OrZero(g)

\* list.sort on a list of n < 64 items whose keys `<` may fail to order
\* (lt[i][j] is key(item i) < key(item j)): the leading run is found and
\* turned ascending, the other items are inserted by binary search; with
\* reverse the list is reversed before and after. The result is the order
\* of the items, as positions of the input.
list_sort(n, lt, reverse) ==
  LET a0 == [i \in 1..n |-> IF reverse THEN n + 1 - i ELSE i]
      descending == lt[a0[2]][a0[1]]
      run == CHOOSE r \in 2..n :
               /\ \A i \in 3..r : lt[a0[i]][a0[i - 1]] <=> descending
               /\ r < n => ~(lt[a0[r + 1]][a0[r]] <=> descending)
      a1 == [i \in 1..n |-> IF descending /\ i <= run THEN a0[run + 1 - i] ELSE a0[i]]
      S[start \in run..n] ==
        IF start = run THEN a1
        ELSE LET a == S[start - 1]
                 pivot == a[start]
                 B[lr \in (1..start) \X (1..start)] ==
                   LET l == lr[1]
                       r == lr[2]
                       p == l + ((r - l) \div 2)
                   IN IF l >= r THEN l
                      ELSE IF lt[pivot][a[p]] THEN B[<<l, p>>] ELSE B[<<p + 1, r>>]
                 pos == B[<<1, start>>]
             IN [i \in 1..n |-> IF i < pos \/ i > start THEN a[i]
                                ELSE IF i = pos THEN pivot ELSE a[i - 1]]
      sorted == IF n < 2 THEN a0 ELSE S[n]
  IN [i \in 1..n |-> IF reverse THEN sorted[n + 1 - i] ELSE sorted[i]]

\* sort(key=float(score), reverse=True): descending, equal keys keep their
\* order; a nan key leaves the order to the insertions of list.sort
SortScoreDesc(s) ==
  IF \A i \in 1..Len(s) : ~is_nan(s[i].score)
  THEN StableSort(s, [i \in 1..Len(s) |-> 0 - score_key(s[i])])
  ELSE LET n == Len(s)
           lt == [i \in 1..n |-> [j \in 1..n |-> float_lt(s[i].score, s[j].score)]]
           order == list_sort(n, lt, TRUE)
       IN [k \in 1..n |-> s[order[k]]]

\* sort(key=(target, -float(score)))
SortTargetThenScoreDesc(s) ==
  IF \A i \in 1..Len(s) : ~is_nan(s[i].score)
  THEN LET byScore == SortScoreDesc(s)
       IN StableSort(byScore, [i \in 1..Len(s) |-> TargetRank(byScore[i].target)])
  ELSE LET n == Len(s)
           lt == [i \in 1..n |-> [j \in 1..n |->
                   \/ TargetRank(s[i].target) < TargetRank(s[j].target)
                   \/ /\ s[i].target = s[j].target
                      /\ float_lt(s[j].score, s[i].score)]]
           order == list_sort(n, lt, FALSE)
       IN [k \in 1..n |-> s[order[k]]]

\* the elements of s whose flag is set, in order
Select(s, keep) ==
  LET F[i \in 0..Len(s)] ==
        IF i = 0 THEN <<>>
        ELSE IF keep[i] THEN Append(F[i - 1], s[i]) ELSE F[i - 1]
  IN F[Len(s)]

Concat(ss) ==
  LET F[i \in 0..Len(ss)] == IF i = 0 THEN <<>> ELSE F[i - 1] \o ss[i]
  IN F[Len(ss)]

\* the keys of a dict filled in this order: each once, first-occurrence order
Distinct(keys) ==
  LET F[i \in 0..Len(keys)] ==
        IF i = 0 THEN <<>>
        ELSE IF keys[i] \in Range(F[i - 1]) THEN F[i - 1]
             ELSE Append(F[i - 1], keys[i])
  IN F[Len(keys)]

TargetsOf(s) == [i \in 1..Len(s) |-> s[i].target]

\* by_protein.values(): the rows of each target, groups in first-seen order
ByProtein(s) ==
  LET keys == Distinct(TargetsOf(s))
  IN [g \in 1..Len(keys) |->
        Select(s, [i \in 1..Len(s) |-> s[i].target = keys[g]])]

(***************************************************************************)
(* Filtering helpers                                                       *)
(***************************************************************************)
\* a plausible slip: >= lets a later row of equal score replace the best
BetterOrEqual(score, best_score) == score >= best_score

\* line 338: score > best[target][0]
Better(score, best_score) == score > best_score

\* a plausible slip: the parsed score written back into the row kept
best_hit_per_target_score_parsed(rws) ==
  LET B[i \in 0..Len(rws)] ==
        IF i = 0 THEN <<>>
        ELSE LET best == B[i - 1]
                 row == rws[i]
                 target == row.target
                 score == score_or_zero(row)
             IN IF target \notin DOMAIN best \/ Better(score, best[target].score)
                THEN [t \in DOMAIN best \cup {target} |->
                        IF t = target THEN [score |-> score, row |-> [row EXCEPT !.score = Num(score)]]
                        ELSE best[t]]
                ELSE best
      best == B[Len(rws)]
      seen == Distinct(TargetsOf(rws))
      keys == StableSort(seen, [i \in 1..Len(seen) |-> TargetRank(seen[i])])
  IN [k \in 1..Len(keys) |-> best[keys[k]].row]

\* lines 329-341
best_hit_per_target(rws) ==
  LET B[i \in 0..Len(rws)] ==
        IF i = 0 THEN <<>>
        ELSE LET best == B[i - 1]
                 row == rws[i]
                 target == row.target
                 score == score_or_zero(row)
             IN IF target \notin DOMAIN best \/ Better(score, best[target].score)
                THEN [t \in DOMAIN best \cup {target} |->
                        IF t = target THEN [score |-> score, row |-> row]
                        ELSE best[t]]
                ELSE best
      best == B[Len(rws)]
      seen == Distinct(TargetsOf(rws))
      keys == StableSort(seen, [i \in 1..Len(seen) |-> TargetRank(seen[i])])
  IN [k \in 1..Len(keys) |-> best[keys[k]].row]

coords_parse(row) == Parses(row.target_start) /\ Parses(row.target_end)
row_start(row) == OrZero(row.target_start)
row_end(row) == OrZero(row.target_end)

\* a plausible slip: the comparison cross-multiplied without the length guard
significant_overlap_unguarded(start, end, s_start, s_end, thr) ==
  LET overlap == Max(0, Min(end, s_end) - Max(start, s_start))
      shorter == Min(end - start, s_end - s_start)
  IN overlap * 100 > thr * shorter

\* lines 390-392: overlap / shorter > overlap_threshold, thr in percent
significant_overlap(start, end, s_start, s_end, thr) ==
  LET overlap == Max(0, Min(end, s_end) - Max(start, s_start))
      shorter == Min(end - start, s_end - s_start)
  IN shorter > 0 /\ overlap * 100 > thr * shorter

\* lines 383-394: the loop over accepted, with its break
redundant(row, accepted, thr) ==
  \E i \in 1..Len(accepted) :
    /\ coords_parse(accepted[i])
    /\ significant_overlap(row_start(row), row_end(row),
                           row_start(accepted[i]), row_end(accepted[i]), thr)

\* a plausible slip: a row whose coordinates do not parse is skipped
non_overlapping_hits_drop_unparsable(rws, thr) ==
  LET A[i \in 0..Len(rws)] ==
        IF i = 0 THEN <<>>
        ELSE LET accepted == A[i - 1]
                 row == rws[i]
             IN IF ~coords_parse(row) THEN accepted
                ELSE IF row_end(row) <= row_start(row) THEN Append(accepted, row)
                ELSE IF redundant(row, accepted, thr) THEN accepted
                ELSE Append(accepted, row)
  IN A[Len(rws)]

\* lines 359-397
non_overlapping_hits(rws, thr) ==
  LET A[i \in 0..Len(rws)] ==
        IF i = 0 THEN <<>>
        ELSE LET accepted == A[i - 1]
                 row == rws[i]
             IN IF ~coords_parse(row) THEN Append(accepted, row)
                ELSE IF row_end(row) <= row_start(row) THEN Append(accepted, row)
                ELSE IF redundant(row, accepted, thr) THEN accepted
                ELSE Append(accepted, row)
  IN A[Len(rws)]

\* a plausible slip: the selection made per (target, ACC), as
\* non_overlapping_per_domain does, and not across the accessions of a target
non_overlapping_per_protein_and_acc(rws, thr) ==
  LET keys == Distinct([i \in 1..Len(rws) |-> <<rws[i].target, rws[i].ACC>>])
      result == Concat([g \in 1..Len(keys) |->
                  non_overlapping_hits(
                    SortScoreDesc(Select(rws, [i \in 1..Len(rws) |->
                      <<rws[i].target, rws[i].ACC>> = keys[g]])), thr)])
  IN SortTargetThenScoreDesc(result)

\* lines 406-416 are not called by main(); lines 419-438
non_overlapping_per_protein(rws, thr) ==
  LET groups == ByProtein(rws)
      result == Concat([g \in 1..Len(groups) |->
                          non_overlapping_hits(SortScoreDesc(groups[g]), thr)])
  IN SortTargetThenScoreDesc(result)

\* the clan of a row's model, <<>> standing for None
clan_of(row, clans) == Get(clans, row.NAME, <<>>)

\* lines 253-265: the loop over accepted, with its break
clan_redundant(row, accepted, clans, thr) ==
  \E i \in 1..Len(accepted) :
    /\ clan_of(accepted[i], clans) = clan_of(row, clans)
    /\ coords_parse(accepted[i])
    /\ significant_overlap(row_start(row), row_end(row),
                           row_start(accepted[i]), row_end(accepted[i]), thr)

\* lines 239-267: one protein's rows, already sorted
clan_dedup_protein(protein_rows, clans, thr) ==
  LET A[i \in 0..Len(protein_rows)] ==
        IF i = 0 THEN <<>>
        ELSE LET accepted == A[i - 1]
                 row == protein_rows[i]
             IN IF clan_of(row, clans) = <<>> THEN Append(accepted, row)
                ELSE IF ~coords_parse(row) THEN Append(accepted, row)
                ELSE IF clan_redundant(row, accepted, clans, thr) THEN accepted
                ELSE Append(accepted, row)
  IN A[Len(protein_rows)]

\* lines 216-269 (the sort of line 238 raises on an unparsable score)
pfam_clan_dedup(rws, clans, thr) ==
  LET groups == ByProtein(rws)
  IN Concat([g \in 1..Len(groups) |->
               clan_dedup_protein(SortScoreDesc(groups[g]), clans, thr)])

\* line 466: the columns of a line, stripped, the blank ones left out
sfld_cols(line) ==
  LET stripped == [i \in 1..Len(line) |-> Strip(line[i])]
  IN Select(stripped, [i \in 1..Len(line) |-> stripped[i] # <<>>])

\* a plausible slip: a child takes its parent only, not the parent's ancestors
load_sfld_hierarchy_parent_only(paths) ==
  LET edges == Concat([l \in 1..Len(paths) |->
                 LET cols == sfld_cols(paths[l])
                 IN [i \in 1..(Len(cols) - 1) |-> <<cols[i], cols[i + 1]>>]])
      M[n \in 0..Len(edges)] ==
        IF n = 0 THEN [children |-> <<>>, ancestors |-> <<>>]
        ELSE LET m == M[n - 1]
                 parent == edges[n][1]
                 child == edges[n][2]
             IN [children |->
                   [k \in DOMAIN m.children \cup {parent} |->
                      IF k = parent THEN Get(m.children, parent, {}) \cup {child}
                      ELSE m.children[k]],
                 ancestors |->
                   [k \in DOMAIN m.ancestors \cup {child} |->
                      IF k = child
                      THEN Get(m.ancestors, child, {}) \cup {parent}
                      ELSE m.ancestors[k]]]
  IN M[Len(edges)]

\* lines 462-480: children_map and ancestors_map built line by line
load_sfld_hierarchy(paths) ==
  LET edges == Concat([l \in 1..Len(paths) |->
                 LET cols == sfld_cols(paths[l])
                 IN [i \in 1..(Len(cols) - 1) |-> <<cols[i], cols[i + 1]>>]])
      M[n \in 0..Len(edges)] ==
        IF n = 0 THEN [children |-> <<>>, ancestors |-> <<>>]
        ELSE LET m == M[n - 1]
                 parent == edges[n][1]
                 child == edges[n][2]
             IN [children |->
                   [k \in DOMAIN m.children \cup {parent} |->
                      IF k = parent THEN Get(m.children, parent, {}) \cup {child}
                      ELSE m.children[k]],
                 ancestors |->
                   [k \in DOMAIN m.ancestors \cup {child} |->
                      IF k = child
                      THEN Get(m.ancestors, child, {}) \cup {parent}
                             \cup Get(m.ancestors, parent, {})
                      ELSE m.ancestors[k]]]
  IN M[Len(edges)]

\* lines 499-507: some other matched ACC of the protein has this ACC as ancestor
has_matched_descendant(row, protein_rows, ancestors_map) ==
  \E j \in 1..Len(protein_rows) :
    /\ protein_rows[j].ACC # row.ACC
    /\ row.ACC \in Get(ancestors_map, protein_rows[j].ACC, {})

\* a plausible slip: the matched set is taken over the whole table, not per protein
filter_sfld_hierarchy_all_targets(rws, ancestors_map) ==
  IF DOMAIN ancestors_map = {} THEN rws
  ELSE LET groups == ByProtein(rws)
       IN Concat([g \in 1..Len(groups) |->
            Select(groups[g], [i \in 1..Len(groups[g]) |->
              ~has_matched_descendant(groups[g][i], rws, ancestors_map)])])

\* lines 483-511
filter_sfld_hierarchy(rws, ancestors_map) ==
  IF DOMAIN ancestors_map = {} THEN rws
  ELSE LET groups == ByProtein(rws)
       IN Concat([g \in 1..Len(groups) |->
            Select(groups[g], [i \in 1..Len(groups[g]) |->
              ~has_matched_descendant(groups[g][i], groups[g], ancestors_map)])])

\* lines 514-530: a row goes when a direct child of its ACC matched the protein
filter_pirsf_hierarchy(rws, hierarchy) ==
  IF DOMAIN hierarchy = {} THEN rws
  ELSE LET groups == ByProtein(rws)
       IN Concat([g \in 1..Len(groups) |->
            Select(groups[g], [i \in 1..Len(groups[g]) |->
              Get(hierarchy, groups[g][i].ACC, {})
                \cap {groups[g][j].ACC : j \in 1..Len(groups[g])} = {}])])

\* row[key] = val
SetField(row, key, val) ==
  [c \in DOMAIN row \cup {key} |-> IF c = key THEN val ELSE row[c]]

\* the characters used, in code point order
CodePoints ==
  <<" ", ",", "-", ".", "0", "1", "2", "3", "4", "5", "6", "7", "8", "9", ":",
    "A", "B", "C", "D", "E", "F", "G", "H", "I", "J", "K", "L", "M", "N", "O",
    "P", "Q", "R", "S", "T", "U", "V", "W", "X", "Y", "Z",
    "a", "b", "c", "d", "e", "f", "g", "h", "i", "j", "k", "l", "m", "n", "o",
    "p", "q", "r", "s", "t", "u", "v", "w", "x", "y", "z">>
ord(c) == CHOOSE i \in 1..Len(CodePoints) : CodePoints[i] = c

\* a < b on str: by the first character that differs, a proper prefix first
StrLess(a, b) ==
  \E k \in 1..(Min(Len(a), Len(b)) + 1) :
    /\ \A j \in 1..(k - 1) : a[j] = b[j]
    /\ IF k > Len(a) THEN k <= Len(b)
       ELSE k <= Len(b) /\ ord(a[k]) < ord(b[k])

\* sorted(go_set)
SortedSet(S) ==
  LET F[n \in 0..Cardinality(S)] ==
        IF n = 0 THEN <<>>
        ELSE Append(F[n - 1], CHOOSE x \in S \ Range(F[n - 1]) :
                                \A y \in S \ Range(F[n - 1]) : x = y \/ StrLess(x, y))
  IN F[Cardinality(S)]

\* ",".join(parts)
Join(parts) ==
  LET F[n \in 0..Len(parts)] ==
        IF n = 0 THEN <<>>
        ELSE IF n = 1 THEN parts[1]
        ELSE F[n - 1] \o <<",">> \o parts[n]
  IN F[Len(parts)]

\* lines 537-540: the cross-reference list of one accession
ipr_lookup(acc, db_xml, sig2ipr) ==
  LET ipr_list == Get(sig2ipr, <<db_xml, acc>>, <<>>)
  IN IF ipr_list = <<>> /\ Len(acc) > 0 /\ "." \in Range(acc)
     THEN Get(sig2ipr, <<db_xml, split_dot_0(acc)>>, <<>>)
     ELSE ipr_list

\* a plausible slip: a blank in the place of an id with no description
ipr_descs_blank_filled(ipr_list, ipr_names) ==
  [i \in 1..Len(ipr_list) |-> Get(ipr_names, ipr_list[i], <<>>)]

\* line 544-546 / 898-901: descriptions of the ids that have one, in order
ipr_descs(ipr_list, ipr_names) ==
  LET kept == Select(ipr_list, [i \in 1..Len(ipr_list) |-> ipr_list[i] \in DOMAIN ipr_names])
  IN [i \in 1..Len(kept) |-> ipr_names[kept[i]]]

\* a plausible slip: the terms in table order, neither sorted nor deduplicated
go_terms_in_table_order(ipr_list, ipr2go) ==
  Concat([i \in 1..Len(ipr_list) |-> Get(ipr2go, ipr_list[i], <<>>)])

\* lines 548-551 / 903-906
go_terms(ipr_list, ipr2go) ==
  SortedSet(UNION {Range(Get(ipr2go, ipr_list[i], <<>>)) : i \in 1..Len(ipr_list)})

\* lines 535-551, one row
annotate_row(row, db_xml, sig2ipr, ipr2go, ipr_names, do_ipr, do_go) ==
  LET ipr_list == ipr_lookup(Strip(row.ACC), db_xml, sig2ipr)
      r1 == IF do_ipr
            THEN SetField(SetField(row, "InterPro", Join(ipr_list)),
                          "IPR_desc", Join(ipr_descs(ipr_list, ipr_names)))
            ELSE row
  IN IF do_go THEN SetField(r1, "GO", Join(go_terms(ipr_list, ipr2go))) ELSE r1

annotate_ipr_go(rws, db_xml, sig2ipr, ipr2go, ipr_names, do_ipr, do_go) ==
  [i \in 1..Len(rws) |->
     annotate_row(rws[i], db_xml, sig2ipr, ipr2go, ipr_names, do_ipr, do_go)]

\* lines 889-907, one row of a database without custom logic
other_row(row, db_xml, sig2ipr, ipr2go, ipr_names, do_ipr, do_go) ==
  LET acc == OrStr(Strip(row.ACC), Strip(row.NAME))
      ipr_list == ipr_lookup(acc, db_xml, sig2ipr)
      r1 == IF do_ipr
            THEN SetField(SetField(row, "InterPro", Join(ipr_list)),
                          "IPR_desc", Join(ipr_descs(ipr_list, ipr_names)))
            ELSE row
  IN IF do_go THEN SetField(r1, "GO", Join(go_terms(ipr_list, ipr2go))) ELSE r1

(***************************************************************************)
(* main(): arguments, reference data and the input table                   *)
(***************************************************************************)
CUSTOM_DBS == {"panther", "hamap", "superfamily", "pfam", "ncbifam",
               "sfld", "pirsf", "cath"}

DB_TO_XML ==
  [d \in {"pfam", "ncbifam", "superfamily", "hamap", "sfld", "pirsf",
          "pirsr", "panther", "cath", "antifam"} |->
     CASE d = "pfam" -> "PFAM" [] d = "ncbifam" -> "NCBIFAM"
       [] d = "superfamily" -> "SSF" [] d = "hamap" -> "HAMAP"
       [] d = "sfld" -> "SFLD" [] d = "pirsf" -> "PIRSF"
       [] d = "pirsr" -> "PIRSR" [] d = "panther" -> "PANTHER"
       [] d = "cath" -> "CATHGENE3D" [] d = "antifam" -> "ANTIFAM"]

\* args.db.upper() of the names used here that DB_TO_XML does not hold
Upper(d) == IF d = "smart" THEN "SMART" ELSE d

\* a plausible slip: the name of an unknown database used as it is
db_xml_of_as_given(d) == Get(DB_TO_XML, d, d)

\* line 587
db_xml_of(d) == Get(DB_TO_XML, d, Upper(d))

\* the databases run here: the eight custom ones, one that DB_TO_XML knows
\* and one it does not
DBS == CUSTOM_DBS \cup {"antifam", "smart"}

SIG2IPR_FILE == "signature2interpro.tsv"
IPR2GO_FILE == "interpro2go"
AllFiles == {SIG2IPR_FILE, IPR2GO_FILE}

InHeader == <<"target", "NAME", "ACC", "DESC", "target_start", "target_end",
              "score", "evalue">>

\* lines 614-624 and 625-626 (lineterminator="\n")
output_fieldnames(header, do_ipr, do_go) ==
  LET f1 == IF do_ipr /\ "InterPro" \notin Range(header)
            THEN header \o <<"InterPro", "IPR_desc">>
            ELSE IF do_ipr /\ "IPR_desc" \notin Range(header)
            THEN LET idx == CHOOSE i \in 1..Len(header) : header[i] = "InterPro"
                 IN SubSeq(header, 1, idx) \o <<"IPR_desc">>
                      \o SubSeq(header, idx + 1, Len(header))
            ELSE header
      f2 == IF do_go /\ "GO" \notin Range(f1) THEN Append(f1, "GO") ELSE f1
  IN Select(f2, [i \in 1..Len(f2) |-> f2[i] # "NAME"])

\* csv.DictWriter(extrasaction="ignore"): the fieldnames columns of each row
\* (idx, the input line the row came from, is carried along)
write_rows(rws, fields) ==
  [i \in 1..Len(rws) |->
     [c \in Range(fields) \cup {"idx"} |->
        IF c \in DOMAIN rws[i] THEN rws[i][c] ELSE <<>>]]

\* lines 592-593: sys.stdout.write(f.read()) with the file opened by
\* open(args.tsv), text mode: the read turns every line end into "\n"
pass_through_output(file) == [file EXCEPT !.eol = "LF"]

\* lines 591, 598-606
is_pass_through == ~iprlookup /\ ~goterms /\ db \notin CUSTOM_DBS

\* a plausible slip: the test of interpro2go left out
reference_missing_sig_only ==
  (iprlookup \/ goterms) /\ SIG2IPR_FILE \notin files

reference_missing ==
  /\ iprlookup \/ goterms
  /\ SIG2IPR_FILE \notin files \/ (goterms /\ IPR2GO_FILE \notin files)

\* lines 601-606: the first file found missing is the one named on stderr
missing_reference_message ==
  IF SIG2IPR_FILE \notin files
  THEN "Error: signature2interpro.tsv not found."
  ELSE "Error: interpro2go not found."

\* lines 597, 607-608: the tables are loaded only when a flag asks for them
sig2ipr_loaded == IF iprlookup \/ goterms THEN ref.sig2ipr ELSE <<>>
ipr2go_loaded == IF goterms THEN ref.ipr2go ELSE <<>>

(***************************************************************************)
(* main(): the steps                                                       *)
(***************************************************************************)
\* an uncaught ValueError: traceback on stderr, exit status 1
Crash ==
  /\ status' = "crash"
  /\ stderr' = Append(stderr, "Traceback")
  /\ pc' = "done"
  /\ UNCHANGED <<rows, prev>>

Stage(result, next) ==
  /\ prev' = rows
  /\ rows' = result
  /\ pc' = next
  /\ UNCHANGED <<status, stderr>>

frame == <<arg, res, db, iprlookup, goterms, files, ref, infile>>

PassThrough ==
  /\ pc = "start" /\ is_pass_through
  /\ out' = pass_through_output(infile)
  /\ status' = "ok"
  /\ pc' = "done"
  /\ UNCHANGED <<frame, fieldnames, rows, prev, stderr>>

\* lines 601-606: sys.exit(1) after the message on stderr
MissingReference ==
  /\ pc = "start" /\ ~is_pass_through /\ reference_missing
  /\ stderr' = Append(stderr, missing_reference_message)
  /\ status' = "exit1"
  /\ pc' = "done"
  /\ UNCHANGED <<frame, fieldnames, rows, prev, out>>

\* lines 607-627 and the dispatch on db
ReadTable ==
  /\ pc = "start" /\ ~is_pass_through /\ ~reference_missing
  /\ rows' = ReadRows(infile.rows)
  /\ fieldnames' = output_fieldnames(infile.header, iprlookup, goterms)
  /\ pc' = IF db \in CUSTOM_DBS THEN db ELSE "other"
  /\ UNCHANGED <<frame, prev, out, stderr, status>>

\* lines 633-637
panther_row(row, panther_names, fields) ==
  LET base_id == pthr_base_id(OrStr(row.NAME, row.ACC))
      r1 == [row EXCEPT !.ACC = base_id]
  IN IF "DESC" \in Range(fields) /\ Strip(r1.DESC) = <<>>
     THEN [r1 EXCEPT !.DESC = Get(panther_names, base_id, <<>>)]
     ELSE r1

PantherCleanup ==
  /\ pc = "panther"
  /\ Stage([i \in 1..Len(rows) |-> panther_row(rows[i], ref.panther_names, fieldnames)],
           "best_hit")
  /\ UNCHANGED <<frame, fieldnames, out>>

\* lines 647-649
hamap_row(row) ==
  IF Strip(row.ACC) = <<>> THEN [row EXCEPT !.ACC = Strip(row.NAME)] ELSE row

HamapBackfill ==
  /\ pc = "hamap"
  /\ Stage([i \in 1..Len(rows) |-> hamap_row(rows[i])], "best_hit")
  /\ UNCHANGED <<frame, fieldnames, out>>

\* lines 638, 650
BestHitStage ==
  /\ pc = "best_hit"
  /\ Stage(best_hit_per_target(rows), "annotate")
  /\ UNCHANGED <<frame, fieldnames, out>>

\* float(row.get("evalue") or 1) inside try, in units of 1e-5
EVALUE_ONE == 100000
evalue_or_one(row) ==
  IF row.evalue.k = "num" THEN row.evalue.v ELSE EVALUE_ONE

\* line 679: evalue > 1e-3
SSF_EVALUE_CUTOFF == 100
\* lines 684, 881, 742
SSF_OVERLAP == 35
CATH_OVERLAP == 20
PFAM_CLAN_OVERLAP == 50

\* a plausible slip: >= for >, so that an e-value equal to the cutoff is dropped
superfamily_filter_strict(rws) ==
  LET kept == Select(rws, [i \in 1..Len(rws) |->
                             ~(evalue_or_one(rws[i]) >= SSF_EVALUE_CUTOFF)])
  IN [i \in 1..Len(kept) |->
        [kept[i] EXCEPT !.ACC = ssf_id(OrStr(kept[i].ACC, kept[i].NAME))]]

\* lines 673-683
superfamily_filter(rws) ==
  LET kept == Select(rws, [i \in 1..Len(rws) |->
                             ~(evalue_or_one(rws[i]) > SSF_EVALUE_CUTOFF)])
  IN [i \in 1..Len(kept) |->
        [kept[i] EXCEPT !.ACC = ssf_id(OrStr(kept[i].ACC, kept[i].NAME))]]

SuperfamilyFilter ==
  /\ pc = "superfamily"
  /\ Stage(superfamily_filter(rows), "per_protein")
  /\ UNCHANGED <<frame, fieldnames, out>>

\* lines 684, 881: non_overlapping_per_protein; its sort key raises on an
\* unparsable score
PerProteinStage ==
  /\ pc = "per_protein"
  /\ IF score_key_raises(rows) THEN Crash
     ELSE Stage(non_overlapping_per_protein(rows,
                  IF db = "cath" THEN CATH_OVERLAP ELSE SSF_OVERLAP), "annotate")
  /\ UNCHANGED <<frame, fieldnames, out>>

\* lines 715, 796: name in ga and score < ga[name][1]
below_domain_threshold(row, ga) ==
  row.NAME \in DOMAIN ga /\ score_or_zero(row) < ga[row.NAME][2]

\* lines 708-718
pfam_domain_filter(rws, ga) ==
  LET kept == Select(rws, [i \in 1..Len(rws) |-> ~below_domain_threshold(rws[i], ga)])
  IN [i \in 1..Len(kept) |-> [kept[i] EXCEPT !.ACC = strip_version(kept[i].ACC)]]

PfamDomainThreshold ==
  /\ pc = "pfam"
  /\ Stage(pfam_domain_filter(rows, ref.ga), "pfam_seq")
  /\ UNCHANGED <<frame, fieldnames, out>>

Sum(ns) ==
  LET F[i \in 0..Len(ns)] == IF i = 0 THEN 0 ELSE F[i - 1] + ns[i]
  IN F[Len(ns)]

\* lines 722-724: the (target, NAME) groups in first-seen order
ByProteinModel(rws) ==
  LET keys == Distinct([i \in 1..Len(rws) |-> <<rws[i].target, rws[i].NAME>>])
  IN [g \in 1..Len(keys) |->
        Select(rws, [i \in 1..Len(rws) |-> <<rws[i].target, rws[i].NAME>> = keys[g]])]

\* lines 727-731: the group's score sum is below the sequence threshold
group_below_sequence_threshold(group, ga) ==
  /\ group[1].NAME \in DOMAIN ga
  /\ Sum([i \in 1..Len(group) |-> score_key(group[i])]) < ga[group[1].NAME][1]

\* line 729: sum(float(r.get("score") or 0) ...) raises on an unparsable score
sequence_sum_raises(rws, ga) ==
  /\ DOMAIN ga # {}
  /\ \E i \in 1..Len(rws) : rws[i].NAME \in DOMAIN ga /\ ~Parses(rws[i].score)

\* lines 721-734
pfam_sequence_filter(rws, ga) ==
  IF DOMAIN ga = {} THEN rws
  ELSE LET groups == ByProteinModel(rws)
           kept == Select(groups, [g \in 1..Len(groups) |->
                     ~group_below_sequence_threshold(groups[g], ga)])
       IN Concat(kept)

PfamSequenceThreshold ==
  /\ pc = "pfam_seq"
  /\ IF sequence_sum_raises(rows, ref.ga) THEN Crash
     ELSE Stage(pfam_sequence_filter(rows, ref.ga), "pfam_clan")
  /\ UNCHANGED <<frame, fieldnames, out>>

\* line 742
PfamClanDedup ==
  /\ pc = "pfam_clan"
  /\ IF score_key_raises(rows) THEN Crash
     ELSE Stage(pfam_clan_dedup(rows, ref.clans, PFAM_CLAN_OVERLAP), "annotate")
  /\ UNCHANGED <<frame, fieldnames, out>>

\* lines 753-764
ncbifam_filter(rws, tc) ==
  LET kept == Select(rws, [i \in 1..Len(rws) |->
                 ~(rws[i].NAME \in DOMAIN tc /\ score_or_zero(rws[i]) < tc[rws[i].NAME][1])])
  IN [i \in 1..Len(kept) |->
        [kept[i] EXCEPT !.ACC = strip_version(OrStr(kept[i].ACC, kept[i].NAME))]]

NcbifamFilter ==
  /\ pc = "ncbifam"
  /\ Stage(ncbifam_filter(rows, ref.ga), "annotate")
  /\ UNCHANGED <<frame, fieldnames, out>>

\* lines 789-798
sfld_threshold_filter(rws, ga) ==
  Select(rws, [i \in 1..Len(rws) |-> ~below_domain_threshold(rws[i], ga)])

SfldThreshold ==
  /\ pc = "sfld"
  /\ Stage(sfld_threshold_filter(rows, ref.ga), "sfld_hier")
  /\ UNCHANGED <<frame, fieldnames, out>>

\* lines 787, 799
SfldHierarchy ==
  /\ pc = "sfld_hier"
  /\ Stage(filter_sfld_hierarchy(rows, load_sfld_hierarchy(ref.sfld_paths).ancestors),
           "annotate")
  /\ UNCHANGED <<frame, fieldnames, out>>

\* lines 813-818: pirsf.thresh when it has entries, else the pirsf.dat statistics
pirsf_thresholds(thresh_tuples, dat_thresholds) ==
  IF DOMAIN thresh_tuples # {}
  THEN [k \in DOMAIN thresh_tuples |-> thresh_tuples[k][1]]
  ELSE dat_thresholds

\* lines 821-832
pirsf_threshold_filter(rws, thresholds) ==
  LET kept == Select(rws, [i \in 1..Len(rws) |->
                 ~(Strip(rws[i].ACC) \in DOMAIN thresholds
                     /\ score_or_zero(rws[i]) < thresholds[Strip(rws[i].ACC)])])
  IN [i \in 1..Len(kept) |->
        IF Strip(kept[i].DESC) = <<>>
        THEN [kept[i] EXCEPT !.DESC = Strip(kept[i].NAME)]
        ELSE kept[i]]

PirsfThreshold ==
  /\ pc = "pirsf"
  /\ Stage(pirsf_threshold_filter(rows, pirsf_thresholds(ref.ga, ref.pirsf_dat)),
           "pirsf_hier")
  /\ UNCHANGED <<frame, fieldnames, out>>

\* line 833
PirsfHierarchy ==
  /\ pc = "pirsf_hier"
  /\ Stage(filter_pirsf_hierarchy(rows, ref.pirsf_hier), "annotate")
  /\ UNCHANGED <<frame, fieldnames, out>>

\* lines 875, 877
CATH_EVALUE_CUTOFF == 10
CATH_MIN_SCORE == 10

\* lines 864-878: the row is mapped and passes the e-value and score cutoffs
cath_keeps(row, cath_map) ==
  LET base == cath_base_name(OrStr(row.ACC, row.NAME))
      domain == Get(cath_map, base, <<>>)
      parsed == Parses(row.evalue) /\ Parses(row.score)
      evalue == IF parsed THEN evalue_or_one(row) ELSE EVALUE_ONE
      score == IF parsed THEN OrZero(row.score) ELSE 0
  IN domain # <<>> /\ ~(evalue > CATH_EVALUE_CUTOFF) /\ ~(score < CATH_MIN_SCORE)

\* lines 862-880
cath_map_filter(rws, cath_map) ==
  LET kept == Select(rws, [i \in 1..Len(rws) |-> cath_keeps(rws[i], cath_map)])
  IN [i \in 1..Len(kept) |->
        [kept[i] EXCEPT !.ACC =
           cath_map[cath_base_name(OrStr(kept[i].ACC, kept[i].NAME))]]]

CathMapFilter ==
  /\ pc = "cath"
  /\ Stage(cath_map_filter(rows, ref.cath_map), "per_protein")
  /\ UNCHANGED <<frame, fieldnames, out>>

\* annotate_ipr_go as every custom branch calls it
Annotate ==
  /\ pc = "annotate"
  /\ Stage(annotate_ipr_go(rows, db_xml_of(db), sig2ipr_loaded, ipr2go_loaded,
                           ref.ipr_names, iprlookup, goterms), "write")
  /\ UNCHANGED <<frame, fieldnames, out>>

\* writer.writeheader(); writer.writerows(rows); return
WriteOutput ==
  /\ pc = "write"
  /\ out' = [header |-> fieldnames, rows |-> write_rows(rows, fieldnames),
             eol |-> "LF"]
  /\ status' = "ok"
  /\ pc' = "done"
  /\ UNCHANGED <<frame, fieldnames, rows, prev, stderr>>

\* lines 888-907: header, then each row annotated and written
OtherAnnotateWrite ==
  /\ pc = "other"
  /\ LET done == [i \in 1..Len(rows) |->
                    other_row(rows[i], db_xml_of(db), sig2ipr_loaded, ipr2go_loaded,
                              ref.ipr_names, iprlookup, goterms)]
     IN /\ prev' = rows
        /\ rows' = done
        /\ out' = [header |-> fieldnames, rows |-> write_rows(done, fieldnames),
                   eol |-> "LF"]
  /\ status' = "ok"
  /\ pc' = "done"
  /\ UNCHANGED <<frame, fieldnames, stderr>>

(***************************************************************************)
(* The runs explored: reference data and input tables per database         *)
(***************************************************************************)
\* coordinates: B overlaps A by 60, C by 10, D by exactly 50 of 100 residues
CoordA == <<Num(0), Num(100)>>
CoordB == <<Num(40), Num(140)>>
CoordC == <<Num(90), Num(190)>>
CoordD == <<Num(50), Num(150)>>
CoordReversed == <<Num(140), Num(40)>>
CoordBad == <<Bad, Num(140)>>

Row(target, name, acc, c, score, evalue) ==
  MkRow(target, name, acc, NoStr, c[1], c[2], score, evalue)

\* cross-reference tables (signature2interpro.tsv, interpro2go, interpro_names.tsv)
IPR1 == <<"I", "1">>
IPR2 == <<"I", "2">>
IPR3 == <<"I", "3">>
GO10 == <<"G", ":", "1", "0">>
GO2 == <<"G", ":", "2">>
GO9 == <<"G", ":", "9">>
Sig2Ipr ==
  (<<"PFAM", <<"P", "F", "1">> >> :> <<IPR1, IPR2, IPR3>>)
    @@ (<<"SFLD", <<"F">> >> :> <<IPR2>>)
    @@ (<<"SMART", <<"S", "M", "1">> >> :> <<IPR2, IPR1>>)
    @@ (<<"ANTIFAM", <<"S", "M", "1">> >> :> <<IPR3>>)
\* GO:10 sorts before GO:2; IPR1 and IPR2 share GO:9; IPR3 has no term
Ipr2Go == (IPR1 :> <<GO9, GO10>>) @@ (IPR2 :> <<GO9, GO2>>)
\* IPR2 has no description
IprNames == (IPR1 :> <<"d", "1">>) @@ (IPR3 :> <<"d", "3">>)

EmptyRef ==
  [ga |-> <<>>, clans |-> <<>>, sfld_paths |-> <<>>, pirsf_dat |-> <<>>,
   pirsf_hier |-> <<>>, cath_map |-> <<>>, panther_names |-> <<>>,
   sig2ipr |-> Sig2Ipr, ipr2go |-> Ipr2Go, ipr_names |-> IprNames]

\* PANTHER
PthrName1 == <<"P", "T", "H", "R", "1", ".", "o">>
PthrName2 == <<"P", "T", "H", "R", "2", ".", "o">>
PantherCore ==
  { Row("P1", PthrName1, NoStr, CoordA, Num(10), Num(0)),
    Row("P1", PthrName2, NoStr, CoordA, Bad, Num(0)),
    Row("P2", NoStr, <<"X", ".", "1">>, CoordA, Num(20), Num(0)) }
PantherRefs ==
  {[EmptyRef EXCEPT !.panther_names = (<<"P", "T", "H", "R", "1">> :> <<"n">>)]}

\* HAMAP
HamapCore ==
  { Row("P1", <<"M", "1">>, NoStr, CoordA, Num(10), Num(0)),
    Row("P1", <<"M", "2">>, <<"M", "2">>, CoordA, Bad, Num(0)),
    Row("P2", <<"M", "1">>, <<" ">>, CoordA, Num(20), Num(0)) }
HamapRefs == {EmptyRef}

\* SUPERFAMILY
SuperfamilyCore ==
  { Row("P1", NoStr, <<"1", ".", "1">>, CoordA, Num(50), Num(5)),
    Row("P1", NoStr, <<"2", ".", "1">>, CoordB, Num(40), Num(50)),
    Row("P1", NoStr, <<"S", "S", "F", "3">>, CoordA, Bad, Num(0)) }
SuperfamilyRefs == {EmptyRef}

\* Pfam: models a and b are in clan CL1, c in CL2, n in none
PfA == <<"a">>
PfB == <<"b">>
PfC == <<"c">>
PfN == <<"n">>
AccPF1v26 == <<"P", "F", "1", ".", "2", "6">>
AccPF1 == <<"P", "F", "1">>
AccPF2v3 == <<"P", "F", "2", ".", "3">>
AccPF3 == <<"P", "F", "3">>
PfamClans ==
  (PfA :> <<"C", "L", "1">>) @@ (PfB :> <<"C", "L", "1">>) @@ (PfC :> <<"C", "L", "2">>)
\* NAME -> (sequence threshold, domain threshold)
PfamGa ==
  { <<>>,
    (PfA :> <<40, 40>>) @@ (PfB :> <<60, 60>>),
    (PfA :> <<60, 50>>) @@ (PfB :> <<40, 40>>),
    (PfN :> <<0, 0>>) }
PfamCore ==
  { Row("P1", PfA, AccPF1v26, CoordA, Num(50), Num(0)),
    Row("P1", PfB, AccPF2v3, CoordB, Num(40), Num(0)),
    Row("P1", PfN, NoStr, CoordA, Bad, Num(0)) }
PfamCat ==
  PfamCore \cup
  { Row("P1", PfB, AccPF2v3, CoordC, Num(40), Num(0)),
    Row("P1", PfC, AccPF3, CoordB, Num(40), Num(0)),
    Row("P1", PfN, AccPF3, CoordB, Num(30), Num(0)),
    Row("P2", PfB, AccPF2v3, CoordB, Num(40), Num(0)),
    Row("P1", PfB, AccPF2v3, CoordD, Num(60), Num(0)),
    Row("P1", PfB, AccPF2v3, CoordReversed, Num(40), Num(0)),
    Row("P1", PfB, AccPF2v3, CoordBad, Num(40), Num(0)),
    Row("P2", PfA, AccPF1v26, CoordA, Num(50), Num(0)) }
PfamRefs == {[EmptyRef EXCEPT !.ga = g, !.clans = PfamClans] : g \in PfamGa}

\* NCBIfam
NcbifamCore ==
  { Row("P1", <<"N", "1">>, <<"N", "F", "1", ".", "0">>, CoordA, Num(50), Num(0)),
    Row("P1", <<"N", "2">>, NoStr, CoordA, Bad, Num(0)),
    Row("P2", <<"N", "1">>, <<"N", "F", "1", ".", "0">>, CoordA, Num(10), Num(0)),
    Row("P2", <<"N", "1">>, <<"N", "F", "1", ".", "0">>, CoordA, Num(40), Num(0)) }
NcbifamRefs == {EmptyRef, [EmptyRef EXCEPT !.ga = (<<"N", "1">> :> <<40, 40>>)]}

\* SFLD: two trees, S > G > F, S > H and T > K, given as root-to-leaf paths
SfldPaths ==
  << << <<"S">>, <<"G">>, <<"F">> >>,
     << <<"S">>, <<"H">> >>,
     << <<"T">>, <<"K">> >> >>
SfldRow(target, acc, score) == Row(target, acc, acc, CoordA, score, Num(0))
SfldCore ==
  { SfldRow("P1", <<"S">>, Num(50)),
    SfldRow("P1", <<"F">>, Num(50)),
    SfldRow("P1", <<"G">>, Bad) }
SfldCat ==
  SfldCore \cup
  { SfldRow("P1", <<"G">>, Num(50)),
    SfldRow("P1", <<"F">>, Num(10)),
    SfldRow("P2", <<"F">>, Num(50)),
    SfldRow("P2", <<"S">>, Num(50)),
    SfldRow("P1", <<"H">>, Num(50)),
    SfldRow("P1", <<"X">>, Num(50)) }
SfldGa == {<<>>, (<<"F">> :> <<20, 20>>)}
SfldRefs ==
  {[EmptyRef EXCEPT !.ga = g, !.sfld_paths = h] : g \in SfldGa, h \in {<<>>, SfldPaths}}

\* PIRSF
PirsfRow(target, acc, score) == Row(target, <<"n">>, acc, CoordA, score, Num(0))
PirsfCore ==
  { PirsfRow("P1", <<"R", "1">>, Num(50)),
    PirsfRow("P1", <<"R", "2">>, Num(50)),
    PirsfRow("P1", <<"R", "1">>, Bad) }
PirsfRefs ==
  { EmptyRef,
    [EmptyRef EXCEPT !.pirsf_dat = (<<"R", "2">> :> 60),
                     !.pirsf_hier = (<<"R", "1">> :> {<<"R", "2">>})],
    [EmptyRef EXCEPT !.ga = (<<"R", "2">> :> <<40, 40>>),
                     !.pirsf_dat = (<<"R", "2">> :> 60),
                     !.pirsf_hier = (<<"R", "1">> :> {<<"R", "2">>})] }

\* CATH
CathCore ==
  { Row("P1", <<"m", "-", "i", "2">>, NoStr, CoordA, Num(50), Num(0)),
    Row("P1", <<"m">>, NoStr, CoordB, Bad, Num(0)),
    Row("P1", <<"q">>, <<"m">>, CoordC, Num(20), Num(10)),
    Row("P1", <<"m">>, <<"q">>, CoordC, Num(20), Num(5)) }
CathRefs ==
  {[EmptyRef EXCEPT !.cath_map = (<<"m">> :> <<"G", "3", "D", ":", "1", ".", "2">>)]}

\* databases without custom logic
OtherCore ==
  { Row("P1", <<"s">>, <<"S", "M", "1">>, CoordA, Num(10), Num(0)),
    Row("P1", <<"S", "M", "1">>, NoStr, CoordA, Bad, Num(0)),
    Row("P2", <<"s">>, <<"S", "M", "1", ".", "2">>, CoordBad, Num(20), Bad) }

Core(d) ==
  CASE d = "panther" -> PantherCore [] d = "hamap" -> HamapCore
    [] d = "superfamily" -> SuperfamilyCore [] d = "pfam" -> PfamCore
    [] d = "ncbifam" -> NcbifamCore [] d = "sfld" -> SfldCore
    [] d = "pirsf" -> PirsfCore [] d = "cath" -> CathCore
    [] OTHER -> OtherCore

Refs(d) ==
  CASE d = "panther" -> PantherRefs [] d = "hamap" -> HamapRefs
    [] d = "superfamily" -> SuperfamilyRefs [] d = "pfam" -> PfamRefs
    [] d = "ncbifam" -> NcbifamRefs [] d = "sfld" -> SfldRefs
    [] d = "pirsf" -> PirsfRefs [] d = "cath" -> CathRefs
    [] OTHER -> {EmptyRef}

\* the flags with the reference files present or missing
Invocations ==
  {[ipr |-> FALSE, go |-> FALSE, files |-> AllFiles]}
    \cup {[ipr |-> TRUE, go |-> FALSE, files |-> f] :
            f \in {AllFiles, AllFiles \ {SIG2IPR_FILE}}}
    \cup {[ipr |-> i, go |-> TRUE, files |-> f] :
            i \in BOOLEAN,
            f \in {AllFiles, AllFiles \ {SIG2IPR_FILE}, AllFiles \ {IPR2GO_FILE}}}

\* how the lines of the input file end
LineEnds == {"LF", "CRLF"}

InitRun(d, inv, r, table, eol) ==
  /\ arg = <<>> /\ res = <<>>
  /\ pc = "start"
  /\ db = d
  /\ iprlookup = inv.ipr /\ goterms = inv.go /\ files = inv.files
  /\ ref = r
  /\ infile = [header |-> InHeader, rows |-> table, eol |-> eol]
  /\ fieldnames = <<>> /\ rows = <<>> /\ prev = <<>>
  /\ out = [header |-> <<>>, rows |-> <<>>, eol |-> "LF"]
  /\ stderr = <<>>
  /\ status = "running"

Init ==
  \E d \in DBS, inv \in Invocations :
    \E r \in Refs(d), table \in Tables(Core(d), MaxMainRows), eol \in LineEnds :
      InitRun(d, inv, r, table, eol)

Next ==
  \/ PassThrough \/ MissingReference \/ ReadTable
  \/ PantherCleanup \/ HamapBackfill \/ BestHitStage
  \/ SuperfamilyFilter \/ PerProteinStage
  \/ PfamDomainThreshold \/ PfamSequenceThreshold \/ PfamClanDedup
  \/ NcbifamFilter
  \/ SfldThreshold \/ SfldHierarchy
  \/ PirsfThreshold \/ PirsfHierarchy
  \/ CathMapFilter
  \/ Annotate \/ WriteOutput \/ OtherAnnotateWrite

Spec == Init /\ [][Next]_vars

\* one database, no annotation flags, longer tables
PlainRun == [ipr |-> FALSE, go |-> FALSE, files |-> AllFiles]

InitPfam ==
  \E r \in PfamRefs, table \in Tables(PfamCat, MaxRows) :
    InitRun("pfam", PlainRun, r, table, "LF")

NextPfam ==
  \/ ReadTable
  \/ PfamDomainThreshold \/ PfamSequenceThreshold \/ PfamClanDedup
  \/ Annotate \/ WriteOutput

SpecPfam == InitPfam /\ [][NextPfam]_vars

\* SUPERFAMILY rows: e-values 5e-5, 1e-4, 5e-4, 1e-3, 2e-3, empty, unparsable
SsfAcc1 == <<"1", ".", "1">>
SsfAcc2 == <<"2", ".", "1">>
SsfAcc3 == <<"S", "S", "F", "3">>
SsfAccX == <<"X", ".", "1">>
SuperfamilyCat ==
  { Row("P1", NoStr, SsfAcc1, CoordA, Num(50), Num(5)),
    Row("P1", NoStr, SsfAcc2, CoordB, Num(40), Num(50)),
    Row("P1", NoStr, SsfAcc3, CoordC, Num(30), Num(10)),
    Row("P2", NoStr, SsfAcc2, CoordB, Num(40), Num(100)),
    Row("P1", NoStr, SsfAccX, CoordA, Num(60), Num(200)),
    Row("P1", <<"4", ".", "1">>, NoStr, CoordB, Num(45), Empty),
    Row("P1", NoStr, SsfAccX, CoordC, Num(20), Num(0)),
    Row("P1", NoStr, SsfAcc1, CoordA, Bad, Num(0)),
    Row("P1", NoStr, SsfAcc1, CoordB, Num(50), Bad),
    Row("P1", <<"4", ".", "1">>, NoStr, CoordReversed, Num(40), Num(0)) }

InitSuperfamily ==
  \E table \in Tables(SuperfamilyCat, MaxRows) :
    InitRun("superfamily", PlainRun, EmptyRef, table, "LF")

NextSuperfamily ==
  \/ ReadTable \/ SuperfamilyFilter \/ PerProteinStage \/ Annotate \/ WriteOutput

SpecSuperfamily == InitSuperfamily /\ [][NextSuperfamily]_vars

InitSfld ==
  \E r \in SfldRefs, table \in Tables(SfldCat, MaxRows) :
    InitRun("sfld", PlainRun, r, table, "LF")

NextSfld ==
  \/ ReadTable \/ SfldThreshold \/ SfldHierarchy \/ Annotate \/ WriteOutput

SpecSfld == InitSfld /\ [][NextSfld]_vars

(***************************************************************************)
(* strip_version applied once and twice to an identifier                   *)
(***************************************************************************)
StripChars == {"A", "1", "."}

NoMain ==
  /\ db = "" /\ iprlookup = FALSE /\ goterms = FALSE /\ files = {}
  /\ ref = <<>> /\ infile = <<>> /\ fieldnames = <<>> /\ rows = <<>>
  /\ prev = <<>> /\ out = <<>> /\ stderr = <<>> /\ status = ""

InitStrip ==
  /\ arg \in StrUpTo(StripChars, MaxLen)
  /\ res = <<>>
  /\ pc = "strip"
  /\ NoMain

StripOnce ==
  /\ pc = "strip"
  /\ res' = <<strip_version(arg)>>
  /\ pc' = "stripped"
  /\ UNCHANGED <<arg, mainvars>>

StripTwice ==
  /\ pc = "stripped"
  /\ res' = <<res[1], strip_version(res[1])>>
  /\ pc' = "stripped_twice"
  /\ UNCHANGED <<arg, mainvars>>

NextStrip == StripOnce \/ StripTwice

SpecStrip == InitStrip /\ [][NextStrip]_vars

\* the identifier ends in two dot-delimited all-digit suffixes, as "A.1.2" does
EndsInTwoNumericSuffixes(s) ==
  \E i, j \in 1..Len(s) :
    /\ i < j /\ s[i] = "." /\ s[j] = "."
    /\ j > i + 1 /\ \A k \in (i + 1)..(j - 1) : s[k] \in Digits
    /\ j < Len(s) /\ \A k \in (j + 1)..Len(s) : s[k] \in Digits

\* C1 (as stated): strip_version(strip_version(x)) = strip_version(x) for every x
C1_IdempotentAll == pc = "stripped_twice" => res[2] = res[1]

\* C1 (amended): a second strip_version changes the result exactly when x ends
\* in two dot-delimited all-digit suffixes; for every other x it is idempotent
C1_IdempotentSingleSuffix ==
  pc = "stripped_twice" =>
    ((res[2] = res[1]) <=> ~EndsInTwoNumericSuffixes(arg))

C1_Witness ==
  /\ pc = "stripped_twice"
  /\ arg = <<"A", ".", "1">>
  /\ res = <<(<<"A">>), (<<"A">>)>>

(***************************************************************************)
(* best_hit_per_target called on a list of rows                            *)
(***************************************************************************)

BestScores == {Num(10), Num(20), Num(-5), Empty, Bad}

BestCat ==
  {MkRow(t, NoStr, NoStr, NoStr, Empty, Empty, sc, Empty) :
     t \in Range(Targets), sc \in BestScores}

InitBest ==
  /\ arg \in Tables(BestCat, MaxRows)
  /\ res = <<>>
  /\ pc = "best"
  /\ NoMain

CallBestHit ==
  /\ pc = "best"
  /\ res' = best_hit_per_target(arg)
  /\ pc' = "best_done"
  /\ UNCHANGED <<arg, mainvars>>

NextBest == CallBestHit

SpecBest == InitBest /\ [][NextBest]_vars

\* the score of a row as the claim counts it: unparsable or empty is 0
ClaimScore(r) == IF r.score.k = "num" THEN r.score.v ELSE 0

NohCoords ==
  { <<Num(0), Num(100)>>, <<Num(90), Num(200)>>, <<Num(50), Num(150)>>,
    <<Num(75), Num(175)>>, <<Num(100), Num(50)>>, <<Num(30), Num(30)>>,
    <<Bad, Num(80)>>, <<Empty, Empty>> }

NohCat ==
  {MkRow("P1", NoStr, NoStr, NoStr, c[1], c[2], Empty, Empty) : c \in NohCoords}

\* the thresholds the program calls it with: 0.25 (default), 0.35, 0.20
NohThresholds == {20, 25, 35}

\* scores strictly descending along the list
Descending(t) == [i \in 1..Len(t) |-> [t[i] EXCEPT !.score = Num(100 - i)]]

InitNoh ==
  /\ \E t \in Tables(NohCat, MaxRows), thr \in NohThresholds :
       arg = [rows |-> Descending(t), thr |-> thr]
  /\ res = <<>>
  /\ pc = "noh"
  /\ NoMain

CallNonOverlappingHits ==
  /\ pc = "noh"
  /\ res' = non_overlapping_hits(arg.rows, arg.thr)
  /\ pc' = "noh_done"
  /\ UNCHANGED <<arg, mainvars>>

NextNoh == CallNonOverlappingHits

SpecNoh == InitNoh /\ [][NextNoh]_vars

Accepted(r) == \E k \in 1..Len(res) : res[k].idx = r.idx

\* the claim's own terms: valid coordinates, overlap and the shorter length
ClaimParsable(r) == r.target_start.k # "bad" /\ r.target_end.k # "bad"
ClaimStart(r) == IF r.target_start.k = "num" THEN r.target_start.v ELSE 0
ClaimEnd(r) == IF r.target_end.k = "num" THEN r.target_end.v ELSE 0
ClaimValid(r) == ClaimParsable(r) /\ ClaimEnd(r) > ClaimStart(r)
ClaimOverlap(a, b) ==
  Max(0, Min(ClaimEnd(a), ClaimEnd(b)) - Max(ClaimStart(a), ClaimStart(b)))
ClaimShorter(a, b) ==
  Min(ClaimEnd(a) - ClaimStart(a), ClaimEnd(b) - ClaimStart(b))
ClaimExceeds(a, b, thr) == ClaimOverlap(a, b) * 100 > thr * ClaimShorter(a, b)

\* C3 (as stated): a row with valid coordinates is accepted iff no
\* already-accepted row overlaps it by more than threshold times the shorter
\* of the two interval lengths
C3_AcceptIffNoOverlap ==
  pc = "noh_done" =>
    \A i \in 1..Len(arg.rows) :
      ClaimValid(arg.rows[i]) =>
        (Accepted(arg.rows[i]) <=>
           ~\E j \in 1..(i - 1) :
              /\ Accepted(arg.rows[j])
              /\ ClaimParsable(arg.rows[j])
              /\ ClaimExceeds(arg.rows[i], arg.rows[j], arg.thr))

\* C3 (amended): a row with valid coordinates is accepted iff no
\* already-accepted row with valid coordinates (end > start) overlaps it by
\* more than threshold times the shorter of the two interval lengths
C3_AcceptIffNoValidOverlap ==
  pc = "noh_done" =>
    \A i \in 1..Len(arg.rows) :
      ClaimValid(arg.rows[i]) =>
        (Accepted(arg.rows[i]) <=>
           ~\E j \in 1..(i - 1) :
              /\ Accepted(arg.rows[j])
              /\ ClaimValid(arg.rows[j])
              /\ ClaimExceeds(arg.rows[i], arg.rows[j], arg.thr))

\* threshold 0.25: after [0,100], [50,150] (overlap 0.50) is rejected, and
\* [75,175] (overlap exactly 0.25) and [90,200] (0.10) are accepted
C3_Witness ==
  /\ pc = "noh_done" /\ arg.thr = 25 /\ Len(arg.rows) = 3
  /\ arg.rows[1].target_start = Num(0) /\ arg.rows[1].target_end = Num(100)
  /\ arg.rows[2].target_start = Num(50) /\ arg.rows[2].target_end = Num(150)
  /\ arg.rows[3].target_start = Num(90) /\ arg.rows[3].target_end = Num(200)
  /\ Len(res) = 2 /\ res[1].idx = 1 /\ res[2].idx = 3

C3_WitnessEqual ==
  /\ pc = "noh_done" /\ arg.thr = 25 /\ Len(arg.rows) = 2
  /\ arg.rows[1].target_start = Num(0) /\ arg.rows[1].target_end = Num(100)
  /\ arg.rows[2].target_start = Num(75) /\ arg.rows[2].target_end = Num(175)
  /\ Len(res) = 2

ValidRows(s) == Select(s, [i \in 1..Len(s) |-> ClaimValid(s[i])])

\* C4: a row with degenerate (end <= start) or unparsable coordinates is
\* always accepted, and it never makes a later row rejected: the valid rows
\* accepted are those accepted when the degenerate rows are not in the list
C4_DegenerateAcceptedAndInert ==
  pc = "noh_done" =>
    /\ \A i \in 1..Len(arg.rows) :
         ~ClaimValid(arg.rows[i]) => Accepted(arg.rows[i])
    /\ ValidRows(res) = non_overlapping_hits(ValidRows(arg.rows), arg.thr)

\* a reversed row and an unparsable one come first and are accepted; the
\* valid row after them is accepted too
C4_Witness ==
  /\ pc = "noh_done" /\ Len(arg.rows) = 3
  /\ arg.rows[1].target_start = Num(100) /\ arg.rows[1].target_end = Num(50)
  /\ arg.rows[2].target_start = Bad
  /\ arg.rows[3].target_start = Num(0) /\ arg.rows[3].target_end = Num(100)
  /\ Len(res) = 3

(***************************************************************************)
(* The SFLD pipeline                                                       *)
(***************************************************************************)
\* the ids left of id on some path of the hierarchy file
ClaimAncestors(id) ==
  {a \in UNION {Range(ref.sfld_paths[l]) : l \in 1..Len(ref.sfld_paths)} :
     \E l \in 1..Len(ref.sfld_paths) :
       \E i, j \in 1..Len(ref.sfld_paths[l]) :
         i < j /\ ref.sfld_paths[l][i] = a /\ ref.sfld_paths[l][j] = id}

Survives(r) == \E k \in 1..Len(rows) : rows[k] = r

\* C5: with a non-empty ancestor map, the hierarchy prune drops a row iff
\* its ACC is an ancestor of some other ACC matched for the same target; the
\* rows of a child survive, a parent matched alone survives, and a child
\* matched on another target removes nothing
C5_DroppedIffAncestorOfMatched ==
  (db = "sfld" /\ pc = "annotate" /\ ref.sfld_paths # <<>>) =>
    /\ \A i \in 1..Len(prev) :
         Survives(prev[i]) <=>
           ~\E j \in 1..Len(prev) :
              /\ prev[j].target = prev[i].target
              /\ prev[j].ACC # prev[i].ACC
              /\ prev[i].ACC \in ClaimAncestors(prev[j].ACC)
    /\ \A k \in 1..Len(rows) : \E i \in 1..Len(prev) : rows[k] = prev[i]
    /\ Len(rows) <= Len(prev)

\* P1 matches the superfamily S and the family F two levels below it, P2
\* matches S alone: P1 keeps F, P2 keeps S
C5_Witness ==
  /\ db = "sfld" /\ pc = "annotate" /\ ref.sfld_paths # <<>>
  /\ Len(prev) = 3 /\ Len(rows) = 2
  /\ \E i, j, k \in 1..3 :
       /\ prev[i].target = "P1" /\ prev[i].ACC = <<"S">> /\ ~Survives(prev[i])
       /\ prev[j].target = "P1" /\ prev[j].ACC = <<"F">> /\ Survives(prev[j])
       /\ prev[k].target = "P2" /\ prev[k].ACC = <<"S">> /\ Survives(prev[k])

(***************************************************************************)
(* The Pfam pipeline                                                       *)
(***************************************************************************)
\* r comes before s in descending score order, ties in input order
ClaimBefore(s, r) ==
  \/ score_or_zero(s) > score_or_zero(r)
  \/ score_or_zero(s) = score_or_zero(r) /\ s.idx < r.idx

ClaimRejects(r, kept, clans, thr) ==
  /\ clan_of(r, clans) # <<>>
  /\ \E k \in 1..Len(kept) :
       /\ kept[k].target = r.target
       /\ ClaimBefore(kept[k], r)
       /\ clan_of(kept[k], clans) = clan_of(r, clans)
       /\ ClaimParsable(r) /\ ClaimParsable(kept[k])
       /\ ClaimExceeds(r, kept[k], thr)

ClaimClanDedup(given, kept, clans, thr) ==
  /\ \A k \in 1..Len(kept) : \E i \in 1..Len(given) : kept[k] = given[i]
  /\ \A i \in 1..Len(given) :
       (\E k \in 1..Len(kept) : kept[k] = given[i])
          <=> ~ClaimRejects(given[i], kept, clans, thr)

\* C6: the clan dedup step returns, per target and in descending score order,
\* every row but those that have a clan and overlap an already-accepted row of
\* the same target and clan by more than the threshold of the shorter
\* interval; a row with no clan is always accepted
C6_ClanDedup ==
  [][pc = "pfam_clan" =>
       /\ pc' = "annotate"
       /\ ClaimClanDedup(rows, rows', ref.clans, PFAM_CLAN_OVERLAP)]_vars

InputRow(i) == ReadRows(infile.rows)[i]
OnlyHitOfTarget(i) ==
  \A j \in 1..Len(infile.rows) : j # i => infile.rows[j].target # infile.rows[i].target
Written(i) == \E k \in 1..Len(out.rows) : out.rows[k].idx = i
WrittenAcc(i) == out.rows[CHOOSE k \in 1..Len(out.rows) : out.rows[k].idx = i].ACC

\* C9: in a finished Pfam run a row that is the only hit of its target and
\* whose family has a domain threshold d is in the output with its ACC
\* version-stripped when its score is >= d, and is absent when its score < d
C9_DomainThresholdEndToEnd ==
  (db = "pfam" /\ pc = "done") =>
    \A i \in 1..Len(infile.rows) :
      LET r == InputRow(i)
      IN (OnlyHitOfTarget(i) /\ r.NAME \in DOMAIN ref.ga /\ Parses(r.score)) =>
           IF score_or_zero(r) >= ref.ga[r.NAME][2]
           THEN Written(i) /\ WrittenAcc(i) = strip_version(r.ACC)
           ELSE ~Written(i)

\* the same with the run completed and the family's sequence threshold met
C9_WhenCompletedAndSequenceMet ==
  (db = "pfam" /\ pc = "done" /\ status = "ok") =>
    \A i \in 1..Len(infile.rows) :
      LET r == InputRow(i)
      IN (OnlyHitOfTarget(i) /\ r.NAME \in DOMAIN ref.ga /\ Parses(r.score)) =>
           IF score_or_zero(r) >= ref.ga[r.NAME][2]
                /\ score_or_zero(r) >= ref.ga[r.NAME][1]
           THEN Written(i) /\ WrittenAcc(i) = strip_version(r.ACC)
           ELSE ~Written(i)

(***************************************************************************)
(* Whole runs                                                              *)
(***************************************************************************)
\* C7: a run with a database that is not custom and with no flag writes
\* exactly the content of the input: same columns, rows, order and bytes
C7_RoundTrip ==
  (pc = "done" /\ is_pass_through) => out = infile

\* the same, for an input whose lines end in "\n"
C7_RoundTripLF ==
  (pc = "done" /\ is_pass_through /\ infile.eol = "LF") => out = infile

\* C8: the output of a finished run has no NAME column, whatever the
\* database and the flags
C8_NameNeverInOutput ==
  (pc = "done" /\ status = "ok") =>
    /\ "NAME" \notin Range(out.header)
    /\ \A k \in 1..Len(out.rows) : "NAME" \notin DOMAIN out.rows[k]

\* the same, for the runs that go through the table writer
C8_NameNotInWriterOutput ==
  (pc = "done" /\ status = "ok" /\ ~is_pass_through) =>
    /\ "NAME" \notin Range(out.header)
    /\ \A k \in 1..Len(out.rows) : "NAME" \notin DOMAIN out.rows[k]

\* C10: no run fails on a score or evalue that is not a number
C10_MalformedNeverAborts == status # "crash"

\* the pipelines that never fail on a malformed number
C10_GuardedPipelines ==
  status = "crash" => db \in {"superfamily", "pfam"}

(***************************************************************************)
(* Missing reference files                                                 *)
(***************************************************************************)
NothingWritten == out.header = <<>> /\ out.rows = <<>>

ClaimRequiredFileMissing ==
  \/ (iprlookup \/ goterms) /\ SIG2IPR_FILE \notin files
  \/ goterms /\ IPR2GO_FILE \notin files

\* C11: when a flag is set and a reference file it requires is missing, the
\* run writes nothing to its output at any point and ends with exit code 1
\* after one diagnostic on stderr, whatever the database
C11_MissingReferenceFatal ==
  ClaimRequiredFileMissing =>
    /\ NothingWritten
    /\ pc = "done" =>
         /\ status = "exit1"
         /\ Len(stderr) = 1 /\ stderr[1] # "Traceback"

\* --goterms alone on a Pfam table of two rows with interpro2go missing
C11_Witness ==
  /\ pc = "done" /\ status = "exit1" /\ db = "pfam"
  /\ goterms /\ ~iprlookup /\ IPR2GO_FILE \notin files /\ SIG2IPR_FILE \in files
  /\ Len(infile.rows) = 2 /\ NothingWritten /\ Len(stderr) = 1

(***************************************************************************)
(* Accessions of the rows written                                          *)
(***************************************************************************)
\* C12: every row written to the output has a non-empty ACC, whatever the
\* database and the input table
C12_AccNeverEmpty ==
  (pc = "done" /\ status = "ok") =>
    \A k \in 1..Len(out.rows) : out.rows[k].ACC # <<>>

(***************************************************************************)
(* Families absent from a reference table                                  *)
(***************************************************************************)
\* the step under way hands row i of its input on to the next step
HandedOn(i) ==
  /\ status' # "crash"
  /\ \E k \in 1..Len(rows') : rows'[k].idx = rows[i].idx

\* a step that does not abort hands row i on
HandedOnUnlessAborted(i) ==
  status' # "crash" => \E k \in 1..Len(rows') : rows'[k].idx = rows[i].idx

HierarchyIds ==
  IF db = "sfld"
  THEN UNION {Range(ref.sfld_paths[l]) : l \in 1..Len(ref.sfld_paths)}
  ELSE DOMAIN ref.pirsf_hier \cup UNION {ref.pirsf_hier[k] : k \in DOMAIN ref.pirsf_hier}

\* row i of the step's input is under no constraint of the table the step uses
ClaimUnconstrained(i) ==
  \/ pc \in {"pfam", "pfam_seq", "ncbifam", "sfld"} /\ rows[i].NAME \notin DOMAIN ref.ga
  \/ pc = "pirsf" /\ Strip(rows[i].ACC) \notin (DOMAIN ref.ga \cup DOMAIN ref.pirsf_dat)
  \/ pc \in {"sfld_hier", "pirsf_hier"} /\ rows[i].ACC \notin HierarchyIds
  \/ pc = "pfam_clan" /\ rows[i].NAME \notin DOMAIN ref.clans

\* C13: a threshold, hierarchy or clan step never removes a row whose family
\* has no entry in the step's table (an empty table removes no row)
C13_AbsentMeansNoConstraint ==
  [][\A i \in 1..Len(rows) : ClaimUnconstrained(i) => HandedOn(i)]_vars

\* the same for the steps that do not abort
C13_AbsentKeptUnlessAborted ==
  [][\A i \in 1..Len(rows) : ClaimUnconstrained(i) => HandedOnUnlessAborted(i)]_vars

(***************************************************************************)
(* Databases without a custom pipeline, run with a flag                    *)
(***************************************************************************)
ClaimKey == IF db = "antifam" THEN "ANTIFAM" ELSE "SMART"
ClaimInputColumns == Range(InHeader) \ {"NAME"}
ClaimAddedColumns ==
  (IF iprlookup THEN <<"InterPro", "IPR_desc">> ELSE <<>>)
    \o (IF goterms THEN <<"GO">> ELSE <<>>)

\* C14: for a database with no custom pipeline and at least one flag, the
\* output has every input row once, in input order, with every input column
\* but NAME unchanged; only InterPro / IPR_desc / GO are added, looked up
\* under DB_TO_XML[db] or the upper-cased name
C14_OtherDatabasesOnlyAnnotated ==
  (pc = "done" /\ status = "ok" /\ db \notin CUSTOM_DBS /\ (iprlookup \/ goterms)) =>
    /\ Len(out.rows) = Len(infile.rows)
    /\ \A i \in 1..Len(out.rows) :
         /\ out.rows[i].idx = i
         /\ \A c \in ClaimInputColumns : out.rows[i][c] = infile.rows[i][c]
         /\ DOMAIN out.rows[i] = ClaimInputColumns \cup Range(ClaimAddedColumns) \cup {"idx"}
         /\ (iprlookup /\ <<ClaimKey, infile.rows[i].ACC>> \in DOMAIN ref.sig2ipr) =>
              out.rows[i].InterPro = Join(ref.sig2ipr[<<ClaimKey, infile.rows[i].ACC>>])
    /\ \E n \in 0..Len(out.header) :
         /\ Range(SubSeq(out.header, 1, n)) = ClaimInputColumns
         /\ n = Cardinality(ClaimInputColumns)
         /\ SubSeq(out.header, n + 1, Len(out.header)) = ClaimAddedColumns

\* "smart", which DB_TO_XML does not hold, with both flags: two rows written,
\* the first annotated under the key SMART
C14_Witness ==
  /\ pc = "done" /\ status = "ok" /\ db = "smart" /\ iprlookup /\ goterms
  /\ Len(infile.rows) = 2 /\ Len(out.rows) = 2
  /\ infile.rows[1].ACC = <<"S", "M", "1">>
  /\ out.rows[1].InterPro = Join(<<IPR2, IPR1>>)
  /\ infile.rows[1].target # infile.rows[2].target

(***************************************************************************)
(* The annotation join on its own                                          *)
(***************************************************************************)
AccSM1 == <<"S", "M", "1">>
AccSM1v2 == <<"S", "M", "1", ".", "2">>
AccSM1v2v3 == <<"S", "M", "1", ".", "2", ".", "3">>
AccSM1x == <<"S", "M", "1", ".", "x">>

AnnRow(name, acc) == MkRow("P1", name, acc, NoStr, Num(0), Num(100), Num(10), Num(0))

\* accessions with no dot, a version, two numeric suffixes, a suffix that is
\* not a number, blanks around, no entry at all; one row with NAME only
AnnCat ==
  { AnnRow(<<"s">>, AccSM1), AnnRow(<<"s">>, AccSM1v2), AnnRow(<<"s">>, AccSM1v2v3),
    AnnRow(<<"s">>, AccSM1x), AnnRow(<<"s">>, <<" ">> \o AccSM1),
    AnnRow(<<"s">>, <<"X", ".", "1">>), AnnRow(AccSM1v2, NoStr),
    AnnRow(<<"s">>, AccPF1) }

\* the table with and without an entry for SM1.2
AnnSig2Ipr ==
  { <<>>, Sig2Ipr, Sig2Ipr @@ (<<"SMART", AccSM1v2>> :> <<IPR3>>) }

InitAnnotate ==
  /\ \E t \in Tables(AnnCat, MaxAnnRows), x \in {"SMART", "PFAM"},
        s \in AnnSig2Ipr, g \in {<<>>, Ipr2Go}, n \in {<<>>, IprNames},
        i \in BOOLEAN, o \in BOOLEAN :
       arg = [rows |-> ReadRows(t), db_xml |-> x, sig2ipr |-> s, ipr2go |-> g,
              ipr_names |-> n, do_ipr |-> i, do_go |-> o]
  /\ res = <<>>
  /\ pc = "annotate_call"
  /\ NoMain

\* annotate_ipr_go(rows, db_xml, sig2ipr, ipr2go, ipr_names, do_ipr, do_go)
CallAnnotateIprGo ==
  /\ pc = "annotate_call"
  /\ res' = annotate_ipr_go(arg.rows, arg.db_xml, arg.sig2ipr, arg.ipr2go,
                            arg.ipr_names, arg.do_ipr, arg.do_go)
  /\ pc' = "annotated"
  /\ UNCHANGED <<arg, mainvars>>

\* the loop of the databases without custom logic over the same rows
CallOtherRows ==
  /\ pc = "annotate_call"
  /\ res' = [i \in 1..Len(arg.rows) |->
               other_row(arg.rows[i], arg.db_xml, arg.sig2ipr, arg.ipr2go,
                         arg.ipr_names, arg.do_ipr, arg.do_go)]
  /\ pc' = "annotated_other"
  /\ UNCHANGED <<arg, mainvars>>

NextAnnotate == CallAnnotateIprGo \/ CallOtherRows

SpecAnnotate == InitAnnotate /\ [][NextAnnotate]_vars

Annotated == pc \in {"annotated", "annotated_other"}

\* the accession the join looks up for row i
JoinAcc(i) ==
  IF pc = "annotated" THEN Strip(arg.rows[i].ACC)
  ELSE OrStr(Strip(arg.rows[i].ACC), Strip(arg.rows[i].NAME))

ClaimDirect(acc) == Get(arg.sig2ipr, <<arg.db_xml, acc>>, <<>>)

\* C15: the join looks up (db_xml, ACC); only when that gives nothing and ACC
\* holds a '.', it looks up (db_xml, strip_version(ACC)); else the list of
\* cross-references is empty
C15_RetryVersionStripped ==
  (Annotated /\ arg.do_ipr) =>
    \A i \in 1..Len(res) :
      res[i].InterPro =
        Join(IF ClaimDirect(JoinAcc(i)) # <<>> THEN ClaimDirect(JoinAcc(i))
             ELSE IF "." \in Range(JoinAcc(i))
                  THEN ClaimDirect(strip_version(JoinAcc(i)))
                  ELSE <<>>)

\* the retry as the code makes it: with the text before the first '.'
C15_RetryFirstComponent ==
  (Annotated /\ arg.do_ipr) =>
    \A i \in 1..Len(res) :
      res[i].InterPro =
        Join(IF ClaimDirect(JoinAcc(i)) # <<>> THEN ClaimDirect(JoinAcc(i))
             ELSE IF "." \in Range(JoinAcc(i))
                  THEN ClaimDirect(SubSeq(JoinAcc(i), 1, find(JoinAcc(i), ".")))
                  ELSE <<>>)

\* the parts of a comma-joined field (none for the empty field)
ClaimSplit(field) ==
  LET F[i \in 0..Len(field)] ==
        IF i = 0 THEN << <<>> >>
        ELSE IF field[i] = "," THEN Append(F[i - 1], <<>>)
        ELSE [F[i - 1] EXCEPT ![Len(F[i - 1])] = Append(@, field[i])]
  IN IF field = <<>> THEN <<>> ELSE F[Len(field)]

\* the cross-reference ids of row i
JoinIds(i) == ipr_lookup(JoinAcc(i), arg.db_xml, arg.sig2ipr)

\* C16: with ontology lookup requested, the GO field of a row is the
\* comma-joined list of the union of the terms of the row's cross-reference
\* ids, each term once, in ascending lexicographic order; empty with no term
C16_GoSortedUnion ==
  (Annotated /\ arg.do_go) =>
    \A i \in 1..Len(res) :
      LET terms == ClaimSplit(res[i].GO)
      IN /\ Range(terms) =
              UNION {Range(Get(arg.ipr2go, JoinIds(i)[j], <<>>)) : j \in 1..Len(JoinIds(i))}
         /\ \A a, b \in 1..Len(terms) : a < b => StrLess(terms[a], terms[b])
         /\ arg.do_ipr => ClaimSplit(res[i].InterPro) = JoinIds(i)

\* ids I2, I1 with terms (G:9, G:2) and (G:9, G:10): the field is G:10,G:2,G:9
C16_Witness ==
  /\ Annotated /\ arg.do_go /\ Len(res) >= 1
  /\ JoinIds(1) = <<IPR2, IPR1>>
  /\ res[1].GO = <<"G", ":", "1", "0", ",", "G", ":", "2", ",", "G", ":", "9">>

\* C17: with cross-reference lookup requested, IPR_desc lists the
\* descriptions of the row's InterPro ids in the order of the ids, an id with
\* no known description being skipped: never longer than the id list
C17_DescriptionsInIdOrder ==
  (Annotated /\ arg.do_ipr) =>
    \A i \in 1..Len(res) :
      LET ids == ClaimSplit(res[i].InterPro)
          descs == ClaimSplit(res[i].IPR_desc)
      IN /\ Len(descs) <= Len(ids)
         /\ \E f \in [1..Len(descs) -> 1..Len(ids)] :
              /\ \A a, b \in 1..Len(descs) : a < b => f[a] < f[b]
              /\ \A k \in 1..Len(descs) :
                   /\ ids[f[k]] \in DOMAIN arg.ipr_names
                   /\ descs[k] = arg.ipr_names[ids[f[k]]]
              /\ \A j \in 1..Len(ids) :
                   ids[j] \in DOMAIN arg.ipr_names => \E k \in 1..Len(descs) : f[k] = j

\* ids I1, I2, I3 where I2 has no description: the field is d1,d3
C17_Witness ==
  /\ Annotated /\ arg.do_ipr /\ Len(res) >= 1
  /\ res[1].InterPro = <<"I", "1", ",", "I", "2", ",", "I", "3">>
  /\ res[1].IPR_desc = <<"d", "1", ",", "d", "3">>

(***************************************************************************)
(* The SUPERFAMILY pipeline                                                *)
(***************************************************************************)
\* the e-value of a row in units of 1e-5, empty or unparsable read as 1.0
ClaimEvalue(r) == IF r.evalue.k = "num" THEN r.evalue.v ELSE 100000

AfterEvalueFilter == db = "superfamily" /\ pc = "per_protein"

AfterOverlapSelection == db = "superfamily" /\ pc = "annotate"

InRows(r) == \E k \in 1..Len(rows) : rows[k].idx = r.idx

ClaimSsfAcc(r) ==
  LET raw == IF r.ACC # <<>> THEN r.ACC ELSE r.NAME
      dots == {p \in 1..Len(raw) : raw[p] = "."}
      head == IF dots = {} THEN raw
              ELSE SubSeq(raw, 1, (CHOOSE p \in dots : \A q \in dots : p <= q) - 1)
  IN IF startswith(raw, <<"S", "S", "F">>) THEN raw
     ELSE IF head # <<>> /\ \A p \in 1..Len(head) : head[p] \in Digits
     THEN <<"S", "S", "F">> \o head
     ELSE raw

AfterCathMapping == db = "cath" /\ pc = "per_protein"

ClaimCathBase(name) ==
  IF Len(name) >= 3 /\ SubSeq(name, Len(name) - 2, Len(name) - 1) = <<"-", "i">>
  THEN SubSeq(name, 1, Len(name) - 3)
  ELSE name

ClaimCathPasses(r) == ClaimEvalue(r) <= 10 /\ ClaimScore(r) >= 10

RowAfter(r) == rows[CHOOSE k \in 1..Len(rows) : rows[k].idx = r.idx]

\* C20: in the CATH pipeline a row is looked up in the model-to-family table
\* by its NAME with the iteration suffix stripped, whatever its ACC: a row
\* whose stripped NAME is in the table and whose e-value is at most 1e-4 and
\* score at least 10 is handed on with ACC set to the mapped id, and every
\* other row is dropped
C20_MappedByName ==
  AfterCathMapping =>
    \A i \in 1..Len(prev) :
      LET base == ClaimCathBase(prev[i].NAME)
      IN /\ InRows(prev[i]) <=>
              (base \in DOMAIN ref.cath_map /\ ClaimCathPasses(prev[i]))
         /\ InRows(prev[i]) => RowAfter(prev[i]).ACC = ref.cath_map[base]

\* what the code does: the lookup key is ACC when ACC is not empty, and NAME
\* only when it is
C20_MappedByAccElseName ==
  AfterCathMapping =>
    \A i \in 1..Len(prev) :
      LET key == IF prev[i].ACC # <<>> THEN prev[i].ACC ELSE prev[i].NAME
          base == ClaimCathBase(key)
      IN /\ InRows(prev[i]) <=>
              (base \in DOMAIN ref.cath_map /\ ClaimCathPasses(prev[i]))
         /\ InRows(prev[i]) => RowAfter(prev[i]).ACC = ref.cath_map[base]

\* a row whose NAME is in the table is dropped because its ACC is not
C20_NameInTableDropped ==
  /\ AfterCathMapping
  /\ \E i \in 1..Len(prev) :
       /\ ClaimCathBase(prev[i].NAME) \in DOMAIN ref.cath_map
       /\ ClaimCathPasses(prev[i])
       /\ prev[i].ACC # <<>>
       /\ ~InRows(prev[i])

(***************************************************************************)
(* Pfam: the sequence threshold                                            *)
(***************************************************************************)
\* the sum of the scores of the rows of rws in the (target, NAME) group of r
ClaimGroupSum(rws, r) ==
  LET F[n \in 0..Len(rws)] ==
        IF n = 0 THEN 0
        ELSE F[n - 1] + (IF rws[n].target = r.target /\ rws[n].NAME = r.NAME
                         THEN ClaimScore(rws[n]) ELSE 0)
  IN F[Len(rws)]

ClaimGroupDropped(rws, r) ==
  r.NAME \in DOMAIN ref.ga /\ ClaimGroupSum(rws, r) < ref.ga[r.NAME][1]

ClaimSequenceStep(given, kept) ==
  /\ \A k \in 1..Len(kept) : \E i \in 1..Len(given) : kept[k] = given[i]
  /\ \A i \in 1..Len(given) :
       (\E k \in 1..Len(kept) : kept[k] = given[i]) <=> ~ClaimGroupDropped(given, given[i])

\* C21: the sequence-threshold step groups the rows left by the domain step
\* by (target, NAME); a group goes as a whole iff its family has a sequence
\* threshold and the group's score sum is strictly below it, every other
\* group is handed to clan dedup whole; other groups never enter the sum
C21_SequenceThreshold ==
  [][pc = "pfam_seq" =>
       /\ pc' = "pfam_clan"
       /\ ClaimSequenceStep(rows, rows')]_vars

\* the same for the steps that do not abort on an unparsable score
C21_SequenceThresholdUnlessAborted ==
  [][(pc = "pfam_seq" /\ status' # "crash") =>
       /\ pc' = "pfam_clan"
       /\ ClaimSequenceStep(rows, rows')]_vars

\* two rows of model a on P1 scoring 50 each against a sequence threshold of
\* 60 are both handed on (sum 100); the single row of model a on P2 is dropped
C21_TwoDomainsReachTheThreshold ==
  /\ db = "pfam" /\ pc = "pfam_clan" /\ Len(prev) = 3 /\ Len(rows) = 2
  /\ PfA \in DOMAIN ref.ga /\ ref.ga[PfA][1] = 60
  /\ \A i \in 1..3 : prev[i].NAME = PfA /\ prev[i].score = Num(50)
  /\ rows[1].target = "P1" /\ rows[2].target = "P1"
  /\ \E i \in 1..3 : prev[i].target = "P2"

(***************************************************************************)
(* The PIRSF pipeline                                                      *)
(***************************************************************************)
\* pirsf.dat without child lines, with R1 > R2, and with R1 > R2 > R3
PirsfHierarchies ==
  { <<>>,
    (<<"R", "1">> :> {<<"R", "2">>}),
    (<<"R", "1">> :> {<<"R", "2">>}) @@ (<<"R", "2">> :> {<<"R", "3">>}) }

PirsfCat ==
  { PirsfRow("P1", <<"R", "1">>, Num(50)),
    PirsfRow("P1", <<"R", "2">>, Num(50)),
    PirsfRow("P1", <<"R", "3">>, Num(50)),
    PirsfRow("P2", <<"R", "1">>, Num(50)),
    PirsfRow("P2", <<"R", "3">>, Num(50)),
    PirsfRow("P1", <<"R", "2">>, Num(10)),
    PirsfRow("P1", <<"R", "2">>, Bad),
    PirsfRow("P1", <<"X">>, Num(50)) }

InitPirsf ==
  \E h \in PirsfHierarchies, t \in {<<>>, (<<"R", "2">> :> 40)},
     table \in Tables(PirsfCat, MaxRows) :
    InitRun("pirsf", PlainRun, [EmptyRef EXCEPT !.pirsf_hier = h, !.pirsf_dat = t],
            table, "LF")

NextPirsf ==
  \/ ReadTable \/ PirsfThreshold \/ PirsfHierarchy \/ Annotate \/ WriteOutput

SpecPirsf == InitPirsf /\ [][NextPirsf]_vars

AfterPirsfHierarchy == db = "pirsf" /\ pc = "annotate"

\* the ids reachable from id through the parent-to-children table
ClaimPirsfDescendants(id) ==
  LET F[n \in 0..Cardinality(HierarchyIds)] ==
        IF n = 0 THEN Get(ref.pirsf_hier, id, {})
        ELSE F[n - 1] \cup UNION {Get(ref.pirsf_hier, c, {}) : c \in F[n - 1]}
  IN F[Cardinality(HierarchyIds)]

\* C22: after the PIRSF hierarchy step no surviving row's ACC is a direct or
\* transitive ancestor of another ACC matched for the same target, also when
\* a grandparent and a grandchild match and the family between them does not
C22_NoAncestorOfMatchedSurvives ==
  AfterPirsfHierarchy =>
    \A k \in 1..Len(rows) :
      ~\E j \in 1..Len(prev) :
         /\ prev[j].target = rows[k].target
         /\ prev[j].ACC # rows[k].ACC
         /\ prev[j].ACC \in ClaimPirsfDescendants(rows[k].ACC)

\* what the code does: a row goes iff a direct child of its ACC matched the
\* same target
C22_DirectChildrenOnly ==
  (AfterPirsfHierarchy /\ ref.pirsf_hier # <<>>) =>
    \A i \in 1..Len(prev) :
      InRows(prev[i]) <=>
        ~\E j \in 1..Len(prev) :
           /\ prev[j].target = prev[i].target
           /\ prev[j].ACC \in Get(ref.pirsf_hier, prev[i].ACC, {})

\* R1 > R2 > R3 in the table, R1 and R3 matched on P1, R2 not: R1 stays
C22_GrandparentStays ==
  /\ AfterPirsfHierarchy /\ Len(prev) = 2 /\ Len(rows) = 2
  /\ <<"R", "3">> \in ClaimPirsfDescendants(<<"R", "1">>)
  /\ prev[1].target = "P1" /\ prev[1].ACC = <<"R", "1">>
  /\ prev[2].target = "P1" /\ prev[2].ACC = <<"R", "3">>

(***************************************************************************)
(* The NCBIfam pipeline                                                    *)
(***************************************************************************)
AfterNcbifamFilter == db = "ncbifam" /\ pc = "annotate"

ClaimBelowSequenceThreshold(r) ==
  r.NAME \in DOMAIN ref.ga /\ ClaimScore(r) < ref.ga[r.NAME][1]

\* C23: the NCBIfam step drops a row iff its family has a threshold entry and
\* its score is strictly below the entry's sequence threshold; the ACC of a
\* surviving row is strip_version of its input ACC, never a value taken from
\* the model name
C23_AccFromAccessionOnly ==
  AfterNcbifamFilter =>
    \A i \in 1..Len(prev) :
      /\ InRows(prev[i]) <=> ~ClaimBelowSequenceThreshold(prev[i])
      /\ InRows(prev[i]) => RowAfter(prev[i]).ACC = strip_version(prev[i].ACC)

\* what the code does: the accession is the ACC, or the NAME when ACC is empty
C23_AccElseName ==
  AfterNcbifamFilter =>
    \A i \in 1..Len(prev) :
      /\ InRows(prev[i]) <=> ~ClaimBelowSequenceThreshold(prev[i])
      /\ InRows(prev[i]) =>
           RowAfter(prev[i]).ACC =
             strip_version(IF prev[i].ACC # <<>> THEN prev[i].ACC ELSE prev[i].NAME)

\* a row with an empty ACC is handed on with its model name as ACC
C23_NameBecomesAcc ==
  /\ AfterNcbifamFilter
  /\ \E i \in 1..Len(prev) :
       /\ prev[i].ACC = <<>> /\ InRows(prev[i])
       /\ RowAfter(prev[i]).ACC = prev[i].NAME /\ prev[i].NAME # <<>>

(***************************************************************************)
(* main() as a function of the input table                                 *)
(***************************************************************************)
\* lines 629-885: the rows a custom branch hands to annotate_ipr_go, or the
\* ValueError it ends with
main_kept(d, rws) ==
  LET ok(r) == [crashed |-> FALSE, rows |-> r]
      crash == [crashed |-> TRUE, rows |-> <<>>]
      fields == output_fieldnames(infile.header, iprlookup, goterms)
      per_protein(r, thr) ==
        IF score_key_raises(r) THEN crash ELSE ok(non_overlapping_per_protein(r, thr))
  IN CASE d = "panther" ->
            ok(best_hit_per_target(
                 [i \in 1..Len(rws) |-> panther_row(rws[i], ref.panther_names, fields)]))
       [] d = "hamap" ->
            ok(best_hit_per_target([i \in 1..Len(rws) |-> hamap_row(rws[i])]))
       [] d = "superfamily" -> per_protein(superfamily_filter(rws), SSF_OVERLAP)
       [] d = "pfam" ->
            LET after_dom == pfam_domain_filter(rws, ref.ga)
                after_seq == pfam_sequence_filter(after_dom, ref.ga)
            IN IF sequence_sum_raises(after_dom, ref.ga) THEN crash
               ELSE IF score_key_raises(after_seq) THEN crash
               ELSE ok(pfam_clan_dedup(after_seq, ref.clans, PFAM_CLAN_OVERLAP))
       [] d = "ncbifam" -> ok(ncbifam_filter(rws, ref.ga))
       [] d = "sfld" ->
            ok(filter_sfld_hierarchy(sfld_threshold_filter(rws, ref.ga),
                                     load_sfld_hierarchy(ref.sfld_paths).ancestors))
       [] d = "pirsf" ->
            ok(filter_pirsf_hierarchy(
                 pirsf_threshold_filter(rws, pirsf_thresholds(ref.ga, ref.pirsf_dat)),
                 ref.pirsf_hier))
       [] d = "cath" -> per_protein(cath_map_filter(rws, ref.cath_map), CATH_OVERLAP)

\* lines 612-907: the rows main() writes for the table read as rws
main_written(d, rws) ==
  LET fields == output_fieldnames(infile.header, iprlookup, goterms)
  IN IF d \in CUSTOM_DBS
     THEN IF main_kept(d, rws).crashed THEN <<>>
          ELSE write_rows(annotate_ipr_go(main_kept(d, rws).rows, db_xml_of(d),
                            sig2ipr_loaded, ipr2go_loaded, ref.ipr_names,
                            iprlookup, goterms), fields)
     ELSE write_rows([i \in 1..Len(rws) |->
                        other_row(rws[i], db_xml_of(d), sig2ipr_loaded, ipr2go_loaded,
                                  ref.ipr_names, iprlookup, goterms)], fields)

\* a finished run that read the table
RanOnTable == pc = "done" /\ ~is_pass_through /\ ~reference_missing

\* the steps of a run compose to main_written
MainWrittenIsTheRun ==
  RanOnTable =>
    /\ out.rows = main_written(db, ReadRows(infile.rows))
    /\ (status = "crash") <=> (db \in CUSTOM_DBS /\ main_kept(db, ReadRows(infile.rows)).crashed)

(***************************************************************************)
(* Target independence                                                     *)
(***************************************************************************)
OfTarget(rws, t) == Select(rws, [i \in 1..Len(rws) |-> rws[i].target = t])

\* C24: what a run writes for a target T is what it writes when the input
\* holds the rows of T only: rows of other targets change neither which rows
\* of T survive nor their field values
C24_TargetIndependence ==
  /\ RanOnTable =>
       \A t \in Range(Targets) :
         OfTarget(out.rows, t) =
           OfTarget(main_written(db, OfTarget(ReadRows(infile.rows), t)), t)
  /\ (pc = "done" /\ is_pass_through) =>
       \A t \in Range(Targets) : OfTarget(out.rows, t) = OfTarget(infile.rows, t)

\* the same for the runs that do not abort
C24_TargetIndependenceUnlessAborted ==
  (RanOnTable /\ status = "ok") =>
    \A t \in Range(Targets) :
      OfTarget(out.rows, t) =
        OfTarget(main_written(db, OfTarget(ReadRows(infile.rows), t)), t)

\* a row of P1 with an unparsable score keeps the row of P2 out of the output
C24_OtherTargetAborts ==
  /\ RanOnTable /\ status = "crash" /\ Len(infile.rows) = 2
  /\ infile.rows[1].target = "P2" /\ infile.rows[2].target = "P1"
  /\ Len(main_written(db, OfTarget(ReadRows(infile.rows), "P2"))) = 1

(***************************************************************************)
(* load_sfld_hierarchy called on the lines of a hierarchy file             *)
(***************************************************************************)
HierNames == <<"S", "G", "F", "H", "K", "L">>
HierIds == {<<HierNames[i]>> : i \in 1..MaxHierIds}
NoParent == <<>>

\* x and the ids above it
Up(par, x) ==
  LET F[n \in 0..MaxHierIds] ==
        IF n = 0 THEN {x}
        ELSE F[n - 1] \cup ({par[y] : y \in F[n - 1]} \ {NoParent})
  IN F[MaxHierIds]

\* the forests over the ids: every id has one parent or none, and no cycle
Forests ==
  {par \in [HierIds -> HierIds \cup {NoParent}] :
     \A x \in HierIds : par[x] # NoParent => x \notin Up(par, par[x])}

\* the line of the file that ends in x: the ids from the root down to x
RootPath(par, x) ==
  [d \in 1..Cardinality(Up(par, x)) |->
     CHOOSE y \in Up(par, x) : Cardinality(Up(par, y)) = d]

Leaves(par) == {x \in HierIds : \A y \in HierIds : par[y] # x}

\* the files of a forest: one line per leaf, in any order; the last column of
\* the first line may be followed by an empty one
HierFiles(par) ==
  LET n == Cardinality(Leaves(par))
      orders == {f \in [1..n -> Leaves(par)] : \A i, j \in 1..n : f[i] = f[j] => i = j}
  IN {[i \in 1..n |-> RootPath(par, f[i])] : f \in orders}
       \cup {[i \in 1..n |-> IF i = 1 THEN Append(RootPath(par, f[i]), <<" ">>)
                              ELSE RootPath(par, f[i])] : f \in orders}

InitHier ==
  /\ \E par \in Forests : arg \in HierFiles(par)
  /\ res = <<>>
  /\ pc = "hier"
  /\ NoMain

CallLoadSfldHierarchy ==
  /\ pc = "hier"
  /\ res' = load_sfld_hierarchy(arg)
  /\ pc' = "hier_done"
  /\ UNCHANGED <<arg, mainvars>>

NextHier == CallLoadSfldHierarchy

SpecHier == InitHier /\ [][NextHier]_vars

\* the parent/child edges of the file: the adjacent pairs of ids on a line
ClaimEdges ==
  {e \in HierIds \X HierIds :
     \E l \in 1..Len(arg) : \E i \in 1..(Len(arg[l]) - 1) :
       arg[l][i] = e[1] /\ arg[l][i + 1] = e[2]}
ClaimParentsOf(x) == {a \in HierIds : <<a, x>> \in ClaimEdges}
ClaimChildrenOf(x) == {c \in HierIds : <<x, c>> \in ClaimEdges}

\* the ids from which x is reachable through the edges
ClaimTransitiveAncestors(x) ==
  LET F[n \in 0..MaxHierIds] ==
        IF n = 0 THEN ClaimParentsOf(x)
        ELSE F[n - 1] \cup UNION {ClaimParentsOf(a) : a \in F[n - 1]}
  IN F[MaxHierIds]

\* C25: for a file whose lines are the root-to-leaf paths of a forest, in any
\* order and of any depth, ancestors_map maps every id that has a parent to
\* exactly its transitive ancestors and children_map maps every parent to
\* exactly its direct children
C25_FullAncestorSets ==
  pc = "hier_done" =>
    /\ DOMAIN res.ancestors = {x \in HierIds : ClaimParentsOf(x) # {}}
    /\ \A x \in DOMAIN res.ancestors : res.ancestors[x] = ClaimTransitiveAncestors(x)
    /\ DOMAIN res.children = {x \in HierIds : ClaimChildrenOf(x) # {}}
    /\ \A x \in DOMAIN res.children : res.children[x] = ClaimChildrenOf(x)

\* one tree with two branches, the shallow one first and with an empty last
\* column: S > H, then S > G > F
C25_Witness ==
  /\ pc = "hier_done"
  /\ arg = << << <<"S">>, <<"H">>, <<" ">> >>, << <<"S">>, <<"G">>, <<"F">> >> >>
  /\ res.ancestors[<<"F">>] = {<<"S">>, <<"G">>}
  /\ res.ancestors[<<"H">>] = {<<"S">>}
  /\ res.children[<<"S">>] = {<<"G">>, <<"H">>}

\* a chain of four levels on one line: the deepest id has all three above it
C25_FourLevels ==
  /\ pc = "hier_done"
  /\ arg = << << <<"S">>, <<"G">>, <<"F">>, <<"H">> >> >>
  /\ res.ancestors[<<"H">>] = {<<"S">>, <<"G">>, <<"F">>}

(***************************************************************************)
(* load_pirsf_thresholds called on the lines of pirsf.dat                  *)
(***************************************************************************)
\* the lines of pirsf.dat: a header ">id ...", a line whose first two words
\* are numbers (avg, std), and any other line
HeaderLine(id) == [kind |-> "header", id |-> id, avg |-> 0, std |-> 0]
StatsLine(avg, std) == [kind |-> "stats", id |-> <<>>, avg |-> avg, std |-> std]
TextLine == [kind |-> "text", id |-> <<>>, avg |-> 0, std |-> 0]

\* line 162: max(0.0, avg - 3.5 * std), counted in halves
pirsf_min_score(avg, std) == Max(0, 2 * avg - 7 * std)

\* lines 155-168: the positions the while loop stops at (i += 4 after a
\* header, i += 1 after any other line)
pirsf_visited(lines) ==
  LET V[i \in 1..Len(lines)] ==
        \/ i = 1
        \/ i > 1 /\ V[i - 1] /\ lines[i - 1].kind # "header"
        \/ i > 4 /\ V[i - 4] /\ lines[i - 4].kind = "header"
  IN {i \in 1..Len(lines) : V[i]}

\* lines 142-169: PIRSF id -> threshold; the statistics are read from the
\* second line after the header
load_pirsf_thresholds(lines) ==
  LET entries == {i \in pirsf_visited(lines) :
                    /\ lines[i].kind = "header"
                    /\ i + 2 <= Len(lines)
                    /\ lines[i + 2].kind = "stats"}
      ids == {lines[i].id : i \in entries}
      last(id) == CHOOSE i \in entries :
                    lines[i].id = id /\ \A j \in entries : lines[j].id = id => j <= i
  IN [id \in ids |-> pirsf_min_score(lines[last(id) + 2].avg, lines[last(id) + 2].std)]

\* blocks: the four lines of the shipped file (header, name, statistics,
\* BLAST flag), with a low mean, with unparsable statistics, one line
\* shorter, one line longer, and with the statistics right after the header
DatBlocks ==
  { <<TextLine, StatsLine(100, 10), TextLine>>,
    <<TextLine, StatsLine(20, 10), TextLine>>,
    <<TextLine, TextLine, TextLine>>,
    <<TextLine, StatsLine(100, 10)>>,
    <<TextLine, StatsLine(100, 10), TextLine, TextLine>>,
    <<StatsLine(100, 10)>> }

DatIds == <<(<<"R", "1">>), (<<"R", "2">>), (<<"R", "3">>), (<<"R", "4">>)>>

\* the blocks of a file, the k-th headed by ">Rk"
DatFiles ==
  {[k \in 1..Len(f) |-> <<HeaderLine(DatIds[k])>> \o f[k]] :
     f \in UNION {[1..n -> DatBlocks] : n \in 0..MaxBlocks}}

InitDat ==
  /\ arg \in DatFiles
  /\ res = <<>>
  /\ pc = "dat"
  /\ NoMain

CallLoadPirsfThresholds ==
  /\ pc = "dat"
  /\ res' = load_pirsf_thresholds(Concat(arg))
  /\ pc' = "dat_done"
  /\ UNCHANGED <<arg, mainvars>>

NextDat == CallLoadPirsfThresholds

SpecDat == InitDat /\ [][NextDat]_vars

\* the statistics a block carries: those of its first line with two numbers
ClaimHasStats(block) == \E i \in 2..Len(block) : block[i].kind = "stats"
ClaimStats(block) ==
  block[CHOOSE i \in 2..Len(block) :
          block[i].kind = "stats" /\ \A j \in 2..(i - 1) : block[j].kind # "stats"]
ClaimThreshold(block) ==
  LET t == 2 * ClaimStats(block).avg - 7 * ClaimStats(block).std
  IN IF t > 0 THEN t ELSE 0

\* C26: every header line whose block, of whatever number of lines, carries a
\* line with two parsable statistics yields the entry id -> max(0, mean -
\* 3.5 * stddev); no header is skipped because of the length of the block
\* before it; every threshold is >= 0
C26_EveryBlockYieldsItsEntry ==
  pc = "dat_done" =>
    /\ \A k \in 1..Len(arg) :
         ClaimHasStats(arg[k]) =>
           /\ arg[k][1].id \in DOMAIN res
           /\ res[arg[k][1].id] = ClaimThreshold(arg[k])
    /\ \A id \in DOMAIN res : res[id] >= 0

\* what the code does: it holds for files whose blocks have at least four
\* lines with the statistics on the third
C26_FourLineBlocks ==
  (pc = "dat_done" /\ \A k \in 1..Len(arg) : Len(arg[k]) >= 4) =>
    /\ \A k \in 1..Len(arg) :
         arg[k][1].id \in DOMAIN res <=> arg[k][3].kind = "stats"
    /\ \A k \in 1..Len(arg) :
         arg[k][3].kind = "stats" =>
           /\ res[arg[k][1].id] = ClaimThreshold(arg[k])
           /\ res[arg[k][1].id] >= 0

\* a block of three lines before a block of four: the second header is skipped
C26_HeaderSkipped ==
  /\ pc = "dat_done" /\ Len(arg) = 2
  /\ Len(arg[1]) = 3 /\ Len(arg[2]) = 4
  /\ ClaimHasStats(arg[1]) /\ ClaimHasStats(arg[2])
  /\ DOMAIN res = {<<"R", "1">>}

(***************************************************************************)
(* non_overlapping_per_protein called on a list of rows                    *)
(***************************************************************************)
NoppRow(target, acc, s, e, score) ==
  MkRow(target, NoStr, acc, NoStr, s, e, score, Empty)

\* on P1: 0-100 against 40-140 (overlap 0.60), 90-190 (0.10), 65-165 (exactly
\* 0.35) and 80-180 (exactly 0.20); reversed, unparsable and empty fields;
\* two rows of equal score that overlap; two rows of P2
NoppCat ==
  { NoppRow("P1", <<"a">>, Num(0), Num(100), Num(50)),
    NoppRow("P1", <<"b">>, Num(40), Num(140), Num(40)),
    NoppRow("P1", <<"c">>, Num(90), Num(190), Num(30)),
    NoppRow("P1", <<"d">>, Num(65), Num(165), Num(45)),
    NoppRow("P1", <<"e">>, Num(80), Num(180), Num(35)),
    NoppRow("P1", <<"f">>, Num(140), Num(40), Num(55)),
    NoppRow("P1", <<"g">>, Bad, Num(140), Num(20)),
    NoppRow("P1", <<"h">>, Empty, Num(100), Empty),
    NoppRow("P1", <<"i">>, Num(50), Num(150), Bad),
    NoppRow("P1", <<"j">>, Num(0), Num(100), Num(40)),
    NoppRow("P2", <<"b">>, Num(40), Num(140), Num(40)),
    NoppRow("P2", <<"a">>, Num(0), Num(100), Num(60)) }

\* the thresholds main() calls it with: 0.35 (SUPERFAMILY), 0.20 (CATH)
NoppThresholds == {SSF_OVERLAP, CATH_OVERLAP}

InitNopp ==
  /\ \E t \in Tables(NoppCat, MaxNoppRows), thr \in NoppThresholds :
       arg = [rows |-> t, thr |-> thr]
  /\ res = <<>>
  /\ pc = "nopp"
  /\ NoMain

\* the call returns the list, or ends in the ValueError of its sort key
CallNonOverlappingPerProtein ==
  /\ pc = "nopp"
  /\ IF score_key_raises(arg.rows)
     THEN res' = <<>> /\ pc' = "nopp_raised"
     ELSE res' = non_overlapping_per_protein(arg.rows, arg.thr) /\ pc' = "nopp_done"
  /\ UNCHANGED <<arg, mainvars>>

NextNopp == CallNonOverlappingPerProtein

SpecNopp == InitNopp /\ [][NextNopp]_vars

ClaimKeptColumns == {"target", "target_start", "target_end", "score"}

\* every row of rws comes from one input line, no line gives two rows, and
\* target, coordinates and score are those of the line
ClaimDerivedFromInput(rws) ==
  /\ \A k \in 1..Len(rws) :
       /\ rws[k].idx \in 1..Len(infile.rows)
       /\ \A c \in ClaimKeptColumns : rws[k][c] = infile.rows[rws[k].idx][c]
  /\ \A k, l \in 1..Len(rws) : rws[k].idx = rws[l].idx => k = l

\* C28: the result of every step of every pipeline, and the output, holds
\* only rows of the input: each from one input row, none twice, with target,
\* coordinates and score unchanged (ACC, DESC and the annotation columns may
\* be rewritten)
C28_OnlyDroppedOrRewritten ==
  /\ ClaimDerivedFromInput(rows)
  /\ Len(rows) <= Len(infile.rows)
  /\ IF pc = "done" /\ is_pass_through
     THEN out.header = infile.header /\ out.rows = infile.rows
     ELSE /\ ClaimDerivedFromInput(out.rows)
          /\ \A k \in 1..Len(out.rows) :
               DOMAIN out.rows[k] \ (DOMAIN InputRow(1) \cup {"InterPro", "IPR_desc", "GO"}) = {}

\* PANTHER with both flags: of two rows of P1 the better one is written, with
\* its ACC rewritten and the annotation columns added
C28_Witness ==
  /\ db = "panther" /\ pc = "done" /\ status = "ok" /\ iprlookup /\ goterms
  /\ Len(infile.rows) = 2 /\ Len(out.rows) = 1
  /\ infile.rows[1].target = infile.rows[2].target
  /\ out.rows[1].ACC # infile.rows[out.rows[1].idx].ACC
  /\ out.rows[1].score = infile.rows[out.rows[1].idx].score
  /\ "GO" \in DOMAIN out.rows[1]

(***************************************************************************)
(* filter_sfld_hierarchy and filter_pirsf_hierarchy called on a list       *)
(***************************************************************************)
PruneRow(target, acc) ==
  MkRow(target, NoStr, acc, NoStr, Num(0), Num(100), Num(50), Num(0))

PruneCat ==
  {PruneRow(t, acc) : t \in Range(Targets),
                      acc \in {<<"S">>, <<"G">>, <<"F">>, <<"X">>}}

\* hierarchy files: S > G > F and S > H; and one with a cycle, S > G > S
PruneSfldMaps ==
  { <<>>,
    load_sfld_hierarchy(SfldPaths).ancestors,
    load_sfld_hierarchy(<< << <<"S">>, <<"G">>, <<"S">> >> >>).ancestors }

\* parent -> children: none, a chain, a flat family, a cycle, an id that is
\* its own child
PrunePirsfMaps ==
  { <<>>,
    (<<"S">> :> {<<"G">>}) @@ (<<"G">> :> {<<"F">>}),
    (<<"S">> :> {<<"G">>, <<"F">>}),
    (<<"S">> :> {<<"G">>}) @@ (<<"G">> :> {<<"S">>}),
    (<<"S">> :> {<<"S">>}) }

InitPrune ==
  /\ \E t \in Tables(PruneCat, MaxRows) :
       \/ \E h \in PruneSfldMaps : arg = [kind |-> "sfld", rows |-> t, hier |-> h]
       \/ \E h \in PrunePirsfMaps : arg = [kind |-> "pirsf", rows |-> t, hier |-> h]
  /\ res = <<>>
  /\ pc = "prune"
  /\ NoMain

CallFilterSfldHierarchy ==
  /\ pc = "prune" /\ arg.kind = "sfld"
  /\ res' = filter_sfld_hierarchy(arg.rows, arg.hier)
  /\ pc' = "pruned"
  /\ UNCHANGED <<arg, mainvars>>

CallFilterPirsfHierarchy ==
  /\ pc = "prune" /\ arg.kind = "pirsf"
  /\ res' = filter_pirsf_hierarchy(arg.rows, arg.hier)
  /\ pc' = "pruned"
  /\ UNCHANGED <<arg, mainvars>>

NextPrune == CallFilterSfldHierarchy \/ CallFilterPirsfHierarchy

SpecPrune == InitPrune /\ [][NextPrune]_vars

\* the ids of the table and its parent/child pairs
ClaimTableIds ==
  DOMAIN arg.hier \cup UNION {arg.hier[k] : k \in DOMAIN arg.hier}
ClaimChildren(x) ==
  IF arg.kind = "pirsf" THEN Get(arg.hier, x, {})
  ELSE {c \in DOMAIN arg.hier : x \in arg.hier[c]}
ClaimBelow(x) ==
  LET F[n \in 0..Cardinality(ClaimTableIds)] ==
        IF n = 0 THEN ClaimChildren(x)
        ELSE F[n - 1] \cup UNION {ClaimChildren(c) : c \in F[n - 1]}
  IN F[Cardinality(ClaimTableIds)]

\* no id is its own ancestor or child
ClaimAcyclic == \A x \in ClaimTableIds : x \notin ClaimBelow(x)

\* C29: with an acyclic hierarchy table, every target with a row entering the
\* hierarchy filter has a row leaving it, and the rows of a target with the
\* same ACC are kept or dropped together
C29_PruningNeverEmptiesATarget ==
  (pc = "pruned" /\ ClaimAcyclic) =>
    /\ \A i \in 1..Len(arg.rows) :
         \E k \in 1..Len(res) : res[k].target = arg.rows[i].target
    /\ \A i, j \in 1..Len(arg.rows) :
         (arg.rows[i].target = arg.rows[j].target /\ arg.rows[i].ACC = arg.rows[j].ACC)
           => (Accepted(arg.rows[i]) <=> Accepted(arg.rows[j]))
    /\ \A k \in 1..Len(res) : \E i \in 1..Len(arg.rows) : res[k] = arg.rows[i]

\* S > G > F with P1 matching S, F and F again: S goes, both rows of F stay
C29_Witness ==
  /\ pc = "pruned" /\ ClaimAcyclic /\ arg.hier # <<>>
  /\ Len(arg.rows) = 3 /\ Len(res) = 2
  /\ arg.rows[1].ACC = <<"S">> /\ arg.rows[2].ACC = <<"F">> /\ arg.rows[3].ACC = <<"F">>
  /\ \A i \in 1..3 : arg.rows[i].target = "P1"
  /\ res[1].idx = 2 /\ res[2].idx = 3

\* with the cycle S > G > S in the table a target matching S and G is emptied
C29_CycleEmptiesTarget ==
  /\ pc = "pruned" /\ ~ClaimAcyclic
  /\ Len(arg.rows) = 2 /\ Len(res) = 0

(***************************************************************************)
(* non_overlapping_per_protein under permutations of its input             *)
(***************************************************************************)
\* rows of P1 that overlap one another, two with the same score, one whose
\* score is the text "nan", one with no score; a row of P2
PermCat ==
  { NoppRow("P1", <<"n">>, Num(0), Num(100), NaN),
    NoppRow("P1", <<"b">>, Num(40), Num(140), Num(40)),
    NoppRow("P1", <<"k">>, Num(50), Num(150), Num(50)),
    NoppRow("P1", <<"j">>, Num(0), Num(100), Num(40)),
    NoppRow("P1", <<"c">>, Num(90), Num(190), Num(30)),
    NoppRow("P1", <<"h">>, Num(120), Num(220), Empty),
    NoppRow("P2", <<"a">>, Num(0), Num(100), Num(60)) }

InitPerm ==
  /\ \E t \in Tables(PermCat, MaxNoppRows), thr \in NoppThresholds :
       arg = [rows |-> t, thr |-> thr]
  /\ res = <<>>
  /\ pc = "nopp"
  /\ NoMain

SpecPerm == InitPerm /\ [][NextNopp]_vars

ClaimPermutations(n) ==
  {p \in [1..n -> 1..n] : \A i, j \in 1..n : p[i] = p[j] => i = j}

ClaimPermuted(rws, p) == [i \in 1..Len(rws) |-> rws[p[i]]]

\* the scores of two rows are different numbers (two nan count as the same)
ClaimScoreDiffers(f, g) ==
  IF is_nan(f) \/ is_nan(g) THEN ~(is_nan(f) /\ is_nan(g))
  ELSE OrZero(f) # OrZero(g)

ClaimDistinctScores(rws) ==
  \A i, j \in 1..Len(rws) :
    (i # j /\ rws[i].target = rws[j].target)
      => ClaimScoreDiffers(rws[i].score, rws[j].score)

ClaimFiniteScores(rws) == \A i \in 1..Len(rws) : ~is_nan(rws[i].score)

ClaimSameForEveryOrder ==
  \A p \in ClaimPermutations(Len(arg.rows)) :
    non_overlapping_per_protein(ClaimPermuted(arg.rows, p), arg.thr) = res

\* C30: when the rows of each target have pairwise distinct parsable scores,
\* non_overlapping_per_protein returns the same rows in the same order for
\* every permutation of its input
C30_PermutationInvariant ==
  (pc = "nopp_done" /\ ClaimDistinctScores(arg.rows)) => ClaimSameForEveryOrder

\* what the code does: the result is the same for every order of the input
\* when the distinct scores are numbers that `<` orders, which "nan" is not
C30_PermutationInvariantForOrderedScores ==
  (pc = "nopp_done" /\ ClaimDistinctScores(arg.rows) /\ ClaimFiniteScores(arg.rows))
    => ClaimSameForEveryOrder

\* scores nan, 40 and 50 on three overlapping rows of P1: the call keeps one
\* row, and another order of the same rows keeps a different one
C30_NanScoreOrderDependent ==
  /\ pc = "nopp_done" /\ arg.thr = SSF_OVERLAP /\ Len(arg.rows) = 3
  /\ ClaimDistinctScores(arg.rows)
  /\ \E i \in 1..3 : is_nan(arg.rows[i].score)
  /\ Len(res) = 1
  /\ ~ClaimSameForEveryOrder

\* three rows of P1 with scores 50, 40 and 30 and a row of P2: one result for
\* all 24 orders
C30_DistinctScoresOneResult ==
  /\ pc = "nopp_done" /\ Len(arg.rows) = 3
  /\ ClaimDistinctScores(arg.rows) /\ ClaimFiniteScores(arg.rows)
  /\ \A i \in 1..3 : arg.rows[i].target = "P1"
  /\ arg.rows[1].score = Num(30) /\ arg.rows[2].score = Num(50)
  /\ Len(res) = 2 /\ res[1].score = Num(50)
  /\ ClaimSameForEveryOrder

\* two overlapping rows of equal score: the first in the input is the one kept
C30_EqualScoresOrderDependent ==
  /\ pc = "nopp_done" /\ Len(arg.rows) = 2 /\ Len(res) = 1
  /\ arg.rows[1].score = arg.rows[2].score
  /\ arg.rows[1].ACC # arg.rows[2].ACC
  /\ res[1].idx = 1
  /\ ~ClaimSameForEveryOrder

====
